---- MODULE Spec2Model ----
(***************************************************************************)
(* Extension / converter registration and dispatch of asdf.                *)
(*                                                                         *)
(* The repository holds three generations of the index:                    *)
(*   - asdf/extension.py            ExtensionManager (add/remove, lists)   *)
(*   - asdf/extension/_extension.py ExtensionManager (built once)          *)
(*   - asdf/_converter.py           ConverterManager (built once)          *)
(* Each is modelled from its own file.  Objects that come from other       *)
(* modules are modelled by the attributes the file reads from them.        *)
(***************************************************************************)
EXTENDS Naturals, Sequences, FiniteSets, TLC

(***************************************************************************)
(* Bounds                                                                  *)
(***************************************************************************)
\* longest list of extensions a manager is given or grows to
MaxExtensions == 3

(***************************************************************************)
(* Fixtures: the plugin objects handed to the managers.  They have the     *)
(* shape of FullExtension / MinimumConverter of the test module: an        *)
(* extension has `converters` and `tags` (None or a list), a converter has *)
(* `tags` and `types`.  A tag is declared as a bare URI string             *)
(* (rich = FALSE) or as a tag definition object (rich = TRUE); a type is   *)
(* declared as a type object or as a fully-qualified class name.           *)
(***************************************************************************)
None == "None"

Tag(uri, rich) == [uri |-> uri, rich |-> rich]

\* tag URIs: T9 is claimed by nobody
T1 == "tag:t1"
T2 == "tag:t2"
T9 == "tag:t9"
TagURIs == {T1, T2, T9}

\* type objects; Ty9 is claimed by nobody
TypeObjects == {"Ty1", "Ty2", "Ty9"}
\* fully-qualified class names of the type objects
ClassNames == {"mod.Ty1", "mod.Ty2", "mod.Ty9"}

ConverterDelegates == {"c1", "c2", "c3", "c4", "c5", "c6", "c7"}

ConverterTags(c) ==
    CASE c = "c1" -> << Tag(T1, FALSE) >>
      [] c = "c2" -> << Tag(T1, TRUE), Tag(T2, TRUE) >>
      [] c = "c3" -> << Tag(T2, FALSE) >>
      [] c = "c4" -> << Tag(T2, TRUE) >>
      [] c = "c5" -> << Tag(T1, TRUE), Tag(T2, TRUE) >>
      [] c = "c6" -> << Tag(T1, TRUE), Tag(T2, TRUE) >>
      [] c = "c7" -> << Tag(T1, FALSE), Tag(T2, TRUE) >>
      [] OTHER -> << Tag(T1, FALSE) >>

ConverterTypes(c) ==
    CASE c = "c1" -> << "Ty1" >>
      [] c = "c2" -> << "Ty1", "Ty2" >>
      [] c = "c3" -> << "mod.Ty1" >>
      [] c = "c4" -> << "Ty2" >>
      [] c = "c5" -> << "mod.Ty2" >>
      [] c = "c6" -> << "Ty1", "Ty2" >>
      [] c = "c7" -> << "Ty1" >>
      [] OTHER -> << "Ty1" >>

\* the extensions the managers are built from
ExtensionDelegates == {"A", "B", "C", "D", "E"}
\* an extension whose tag list names a tag none of its converters supports
\* (T9), a tag it describes and its converter does not (T1), and a tag its
\* converter describes and it does not (T2)
MismatchedDelegates == {"F"}

ExtensionConverters(e) ==
    CASE e = "A" -> << "c1" >>
      [] e = "B" -> << "c2" >>
      [] e = "C" -> << "c3", "c4" >>
      [] e = "D" -> << "c6" >>
      [] e = "E" -> << "c5" >>
      [] e = "F" -> << "c7" >>
      [] OTHER -> << >>

\* the delegate's `tags` attribute: None, or the declared list
ExtensionTagsDeclared(e) == e \in {"D", "E", "F", "BT"}

ExtensionTags(e) ==
    CASE e = "D" -> << Tag(T2, TRUE) >>
      [] e = "E" -> << Tag(T1, TRUE), Tag(T2, TRUE) >>
      [] e = "F" -> << Tag(T1, TRUE), Tag(T2, FALSE), Tag(T9, TRUE) >>
      [] OTHER -> << >>

(***************************************************************************)
(* Values shared by the three managers                                     *)
(***************************************************************************)
\* an ExtensionProxy: the wrapped delegate and the package that provided it
ExtensionProxy(delegate, package) == [delegate |-> delegate, package |-> package]

\* ExtensionProxy.maybe_wrap: a raw delegate is wrapped with no package,
\* a proxy is returned as it is
Packages == {None, "pkg"}
Proxies == {ExtensionProxy(d, p) : d \in ExtensionDelegates, p \in Packages}

\* what a caller hands to a manager: a raw extension object, or a proxy
\* (here one that carries a package)
Input(delegate, package, raw) == [delegate |-> delegate, package |-> package, raw |-> raw]
Inputs == {Input(d, None, TRUE) : d \in ExtensionDelegates}
            \cup {Input(d, "pkg", FALSE) : d \in ExtensionDelegates}
MaybeWrap(x) == ExtensionProxy(x.delegate, x.package)

\* the lists of extensions a manager is built from: no delegate twice
InputLists ==
    {l \in UNION {[1..n -> Inputs] : n \in 0..MaxExtensions} :
        \A i, j \in DOMAIN l : i # j => l[i].delegate # l[j].delegate}

\* a ConverterProxy: the wrapped converter and its owning extension
ConverterProxy(delegate, extension) == [delegate |-> delegate, extension |-> extension]

NoExtension == ExtensionProxy("-", None)
NoConverter == ConverterProxy("-", NoExtension)

\* what a call gave back: a converter, None, an empty list, or an exception
ReturnConverter(c) == [kind |-> "converter", converter |-> c, exc |-> None, names |-> None]
ReturnNone == [kind |-> "None", converter |-> NoConverter, exc |-> None, names |-> None]
ReturnEmptyList == [kind |-> "[]", converter |-> NoConverter, exc |-> None, names |-> None]
ReturnBool(b) == [kind |-> IF b THEN "True" ELSE "False", converter |-> NoConverter, exc |-> None, names |-> None]
Raise(exc, names) == [kind |-> "raise", converter |-> NoConverter, exc |-> exc, names |-> names]

\* dict / defaultdict(list) access
EmptyDict == [k \in {} |-> << >>]
Get(d, k) == IF k \in DOMAIN d THEN d[k] ELSE << >>
Put(d, k, v) == [x \in (DOMAIN d) \cup {k} |-> IF x = k THEN v ELSE d[x]]
\* bind k to v only when k is not bound yet
BindIfAbsent(d, k, v) == IF k \in DOMAIN d THEN d ELSE Put(d, k, << v >>)

\* d[k].append(v) on a defaultdict(list)
AppendTo(d, k, v) == Put(d, k, Append(Get(d, k), v))

RECURSIVE AppendToAll(_, _, _)
\* for k in keys: d[k].append(v)
AppendToAll(d, keys, v) ==
    IF keys = << >> THEN d
    ELSE AppendToAll(AppendTo(d, Head(keys), v), Tail(keys), v)

Range(s) == {s[i] : i \in DOMAIN s}

Min(S) == CHOOSE i \in S : \A j \in S : i <= j

VARIABLES
    cls,    \* the class of the manager under test
    m1,     \* fields of an asdf/extension.py ExtensionManager
    m2,     \* fields of an asdf/extension/_extension.py ExtensionManager
    cm,     \* fields of an asdf/_converter.py ConverterManager
    last,   \* the last call made on the manager and what it gave back
    children,   \* the object graph under conversion: object -> its children
    beh,        \* how the converter's to_tree / from_tree behave
    phase,      \* "idle", the direction under way, "done" or "failed"
    stack,      \* the walk: the conversions under way, innermost last
    table,      \* per direction: identity -> the value handed out for it
    invoked,    \* per direction: identity -> calls of the converter for it
    gens,       \* per direction: identity -> the converter's generator
    refs,       \* per direction: what each reference was resolved to
    used,       \* ctx.extensions_used
    error,      \* the exception that ended the conversion, or None
    passed,     \* per direction: identity -> the `tag` the converter was given
    px,         \* fields of the proxy or context object under test
    call        \* the last call made on that object and what it gave back

\* a call: the method, its argument (a tag, a type, or the delegate of an
\* extension, then given in ext) and what it gave back
Call(op, arg, ext, res) == [op |-> op, arg |-> arg, ext |-> ext, res |-> res]

\* how a finished call is reported: the exception, or the None of a method
\* that returns nothing
Outcome(exc) == IF exc = None THEN ReturnNone ELSE Raise(exc, None)

(***************************************************************************)
(* asdf/extension.py: ExtensionManager                                     *)
(***************************************************************************)
LegacyClass == "asdf.extension.ExtensionManager"

\* AsdfTagDescription(tag_uri, schema_uri=...): described says whether the
\* optional metadata was given
AsdfTagDescription(tag_uri, described) == [tag_uri |-> tag_uri, described |-> described]

\* the fields _reset assigns before it reaches self._extension_list
LegacyFields ==
    [ extensions |-> << >>,
      tag_descriptions_by_tag |-> EmptyDict,
      converters_by_tag |-> EmptyDict,
      converters_by_type |-> EmptyDict,
      tags |-> {},
      types |-> {} ]

\* `self._extension_list = None`: the class defines _extension_list as a
\* property with no setter, so the assignment raises
AssignExtensionList == "AttributeError"

\* ExtensionManager._reset: the fields it leaves and the exception it ends with
Reset == [fields |-> LegacyFields, exc |-> AssignExtensionList]

\* ExtensionProxy.converters: a fresh ConverterProxy per declared converter
LegacyConverters(ext) ==
    [i \in DOMAIN ExtensionConverters(ext.delegate) |->
        ConverterProxy(ExtensionConverters(ext.delegate)[i], ext)]

\* the tag URIs a converter of this generation lists in `tags`
LegacyConverterTags(c) == [i \in DOMAIN ConverterTags(c) |-> ConverterTags(c)[i].uri]

RECURSIVE ConverterTagDescriptions(_)
\* for converter in self.converters: for tag in converter.tags: AsdfTagDescription(tag)
ConverterTagDescriptions(cs) ==
    IF cs = << >> THEN << >>
    ELSE [i \in DOMAIN LegacyConverterTags(Head(cs)) |->
              AsdfTagDescription(LegacyConverterTags(Head(cs))[i], FALSE)]
         \o ConverterTagDescriptions(Tail(cs))

\* ExtensionProxy.tag_descriptions
TagDescriptions(ext) ==
    IF ~ExtensionTagsDeclared(ext.delegate)
    THEN ConverterTagDescriptions(ExtensionConverters(ext.delegate))
    ELSE [i \in DOMAIN ExtensionTags(ext.delegate) |->
              AsdfTagDescription(ExtensionTags(ext.delegate)[i].uri,
                                 ExtensionTags(ext.delegate)[i].rich)]

RECURSIVE IndexTagDescriptions(_, _)
\* for tag_desc in ...: self._tag_descriptions_by_tag[tag_desc.tag_uri].append(tag_desc)
IndexTagDescriptions(d, descs) ==
    IF descs = << >> THEN d
    ELSE IndexTagDescriptions(AppendTo(d, Head(descs).tag_uri, Head(descs)), Tail(descs))

RECURSIVE LegacyIndexByTag(_, _, _)
\* the converter loop's tag part: only tags in extension_tags are mapped
LegacyIndexByTag(d, convs, extension_tags) ==
    IF convs = << >> THEN d
    ELSE LegacyIndexByTag(
             AppendToAll(d,
                         SelectSeq(LegacyConverterTags(Head(convs).delegate),
                                   LAMBDA t : t \in extension_tags),
                         Head(convs)),
             Tail(convs), extension_tags)

RECURSIVE LegacyIndexByType(_, _)
\* the converter loop's type part
LegacyIndexByType(d, convs) ==
    IF convs = << >> THEN d
    ELSE LegacyIndexByType(
             AppendToAll(d, ConverterTypes(Head(convs).delegate), Head(convs)),
             Tail(convs))

\* is this very proxy (delegate and package) already in the list
PresentByEquality(m, ext) == \E i \in DOMAIN m.extensions : m.extensions[i] = ext

\* is an extension with this delegate already in the list
LegacyPresent(m, ext) == \E i \in DOMAIN m.extensions : m.extensions[i].delegate = ext.delegate

\* add_extension, from the append to the update of _tags and _types
LegacyIndexExtension(m, ext) ==
    LET descs == TagDescriptions(ext)
        extension_tags == {descs[i].tag_uri : i \in DOMAIN descs}
        convs == LegacyConverters(ext)
        extension_types == UNION {Range(ConverterTypes(convs[i].delegate)) : i \in DOMAIN convs}
    IN  [ extensions |-> Append(m.extensions, ext),
          tag_descriptions_by_tag |-> IndexTagDescriptions(m.tag_descriptions_by_tag, descs),
          converters_by_tag |-> LegacyIndexByTag(m.converters_by_tag, convs, extension_tags),
          converters_by_type |-> LegacyIndexByType(m.converters_by_type, convs),
          tags |-> m.tags \cup extension_tags,
          types |-> m.types \cup extension_types ]

\* add_extension: the fields it leaves and the exception it ends with
LegacyAddExtension(m, ext) ==
    IF LegacyPresent(m, ext)
    THEN [fields |-> m, exc |-> None]
    ELSE [fields |-> LegacyIndexExtension(m, ext), exc |-> AssignExtensionList]

RECURSIVE LegacyAddAll(_, _)
\* for ext in extensions: self.add_extension(ext); an exception ends the loop
LegacyAddAll(m, exts) ==
    IF exts = << >> THEN [fields |-> m, exc |-> None]
    ELSE LET r == LegacyAddExtension(m, Head(exts))
         IN  IF r.exc # None THEN r ELSE LegacyAddAll(r.fields, Tail(exts))

\* remove_extension: the fields it leaves and the exception it ends with
LegacyRemoveExtension(m, ext) ==
    LET remaining_extensions == SelectSeq(m.extensions, LAMBDA e : e.delegate # ext.delegate)
        r == Reset
    IN  IF r.exc # None THEN r ELSE LegacyAddAll(r.fields, remaining_extensions)

\* ExtensionManager.__init__(extensions)
LegacyInit(exts) ==
    LET r == Reset
    IN  IF r.exc # None THEN r ELSE LegacyAddAll(r.fields, exts)

\* get_converter_for_tag
LegacyGetConverterForTag(m, tag) ==
    LET converters == Get(m.converters_by_tag, tag)
    IN  IF Len(converters) = 0 THEN ReturnNone ELSE ReturnConverter(converters[1])

\* get_converter_for_type
LegacyGetConverterForType(m, typ) ==
    LET converters == Get(m.converters_by_type, typ)
    IN  IF Len(converters) = 0 THEN ReturnNone ELSE ReturnConverter(converters[1])

(***************************************************************************)
(* asdf/extension/_extension.py: ExtensionProxy and ExtensionManager       *)
(***************************************************************************)
CurrentClass == "asdf.extension._extension.ExtensionManager"

\* AsdfTagDefinition(tag_uri, ...): described says whether the optional
\* metadata was given
AsdfTagDefinition(tag_uri, described) == [tag_uri |-> tag_uri, described |-> described]

\* asdf.util.get_class_name(obj, instance): the fully-qualified name of the
\* class of obj, or of obj itself when instance is False.  The class of a
\* type object is `type`.
GetClassName(typ, instance) ==
    IF instance THEN "builtins.type"
    ELSE CASE typ = "Ty1" -> "mod.Ty1"
           [] typ = "Ty2" -> "mod.Ty2"
           [] typ = "Ty9" -> "mod.Ty9"

\* isinstance(typ, str), for a declared type
IsStr(typ) == typ \in ClassNames

\* ExtensionProxy.converters: the proxy class does not define it, so the
\* property of the base class AsdfExtension answers
ProxyConverters(ext) == << >>

RECURSIVE ProxyConverterTags(_)
\* for converter in self.converters: result.extend(converter.tags)
ProxyConverterTags(convs) ==
    IF convs = << >> THEN << >>
    ELSE [i \in DOMAIN ConverterTags(Head(convs).delegate) |->
              AsdfTagDefinition(ConverterTags(Head(convs).delegate)[i].uri,
                                ConverterTags(Head(convs).delegate)[i].rich)]
         \o ProxyConverterTags(Tail(convs))

\* ExtensionProxy.tags
ProxyTags(ext) ==
    IF ~ExtensionTagsDeclared(ext.delegate)
    THEN ProxyConverterTags(ProxyConverters(ext))
    ELSE [i \in DOMAIN ExtensionTags(ext.delegate) |->
              AsdfTagDefinition(ExtensionTags(ext.delegate)[i].uri,
                                ExtensionTags(ext.delegate)[i].rich)]

\* the fields ExtensionManager.__init__ starts from
CurrentFields ==
    [ built |-> FALSE,
      extensions |-> << >>,
      tag_defs_by_tag |-> EmptyDict,
      converters_by_tag |-> EmptyDict,
      converters_by_type |-> EmptyDict,
      converters_by_type_class_name |-> EmptyDict ]

\* what the loop of __init__ reads from one element of `extensions`: the
\* loop runs over the list as given, not over the wrapped self._extensions.
\* A proxy answers with ProxyTags / ProxyConverters.  A raw extension
\* answers with its own attributes: `tags` may be None (not iterable), and
\* a bare string in a tags list has no tag_uri.
ElementTags(x) ==
    IF x.raw
    THEN [i \in DOMAIN ExtensionTags(x.delegate) |->
              AsdfTagDefinition(ExtensionTags(x.delegate)[i].uri, ExtensionTags(x.delegate)[i].rich)]
    ELSE ProxyTags(MaybeWrap(x))

ElementConverters(x) ==
    IF x.raw
    THEN [i \in DOMAIN ExtensionConverters(x.delegate) |->
              ConverterProxy(ExtensionConverters(x.delegate)[i], NoExtension)]
    ELSE ProxyConverters(MaybeWrap(x))

\* the exception the loop body ends with for this element, or None
ElementError(x) ==
    IF ~x.raw THEN None
    ELSE IF ~ExtensionTagsDeclared(x.delegate) THEN "TypeError"
    ELSE IF \E i \in DOMAIN ExtensionTags(x.delegate) : ~ExtensionTags(x.delegate)[i].rich
         THEN "AttributeError"
    ELSE IF \E i \in DOMAIN ExtensionConverters(x.delegate) :
              \E j \in DOMAIN ConverterTags(ExtensionConverters(x.delegate)[i]) :
                  ~ConverterTags(ExtensionConverters(x.delegate)[i])[j].rich
         THEN "AttributeError"
    ELSE None

RECURSIVE IndexTagDefinitions(_, _)
\* for tag_def in extension.tags: self._tag_defs_by_tag[tag_def.tag_uri].append(tag_def)
IndexTagDefinitions(d, defs) ==
    IF defs = << >> THEN d
    ELSE IndexTagDefinitions(AppendTo(d, Head(defs).tag_uri, Head(defs)), Tail(defs))

RECURSIVE CurrentIndexByTag(_, _, _)
\* the converter loop's tag part: only tags in extension_tags are mapped
CurrentIndexByTag(d, convs, extension_tags) ==
    IF convs = << >> THEN d
    ELSE CurrentIndexByTag(
             AppendToAll(d,
                         SelectSeq(LegacyConverterTags(Head(convs).delegate),
                                   LAMBDA t : t \in extension_tags),
                         Head(convs)),
             Tail(convs), extension_tags)

RECURSIVE CurrentIndexByType(_, _, _)
\* the converter loop's type part: by_name selects the declarations that
\* are strings, which go to _converters_by_type_class_name
CurrentIndexByType(d, convs, by_name) ==
    IF convs = << >> THEN d
    ELSE CurrentIndexByType(
             AppendToAll(d,
                         SelectSeq(ConverterTypes(Head(convs).delegate),
                                   LAMBDA t : IsStr(t) = by_name),
                         Head(convs)),
             Tail(convs), by_name)

\* one round of the loop of __init__
CurrentIndexElement(m, x) ==
    LET defs == ElementTags(x)
        extension_tags == {defs[i].tag_uri : i \in DOMAIN defs}
        convs == ElementConverters(x)
    IN  [ m EXCEPT
            !.tag_defs_by_tag = IndexTagDefinitions(@, defs),
            !.converters_by_tag = CurrentIndexByTag(@, convs, extension_tags),
            !.converters_by_type = CurrentIndexByType(@, convs, FALSE),
            !.converters_by_type_class_name = CurrentIndexByType(@, convs, TRUE) ]

RECURSIVE CurrentIndexAll(_, _)
CurrentIndexAll(m, xs) ==
    IF xs = << >> THEN [fields |-> [m EXCEPT !.built = TRUE], exc |-> None]
    ELSE IF ElementError(Head(xs)) # None
         THEN [fields |-> CurrentFields, exc |-> ElementError(Head(xs))]
         ELSE CurrentIndexAll(CurrentIndexElement(m, Head(xs)), Tail(xs))

\* ExtensionManager.__init__(extensions): the manager, or the exception that
\* leaves no manager
CurrentInit(xs) ==
    CurrentIndexAll([CurrentFields EXCEPT !.extensions = [i \in DOMAIN xs |-> MaybeWrap(xs[i])]], xs)

\* handles_tag
HandlesTag(m, tag) == tag \in DOMAIN m.converters_by_tag

\* handles_type
HandlesType(m, typ) ==
    \/ typ \in DOMAIN m.converters_by_type
    \/ GetClassName(typ, FALSE) \in DOMAIN m.converters_by_type_class_name

\* the key of self._converters_by_tag[0]: the integer 0, which is no tag URI
KeyZero == "0"

\* get_converter_for_tag: what it returns and the index it leaves.  Its
\* subscript is [0], not [tag][0]: a defaultdict(list) answers a missing
\* key with a new empty list, which it stores.
CurrentGetConverterForTag(m, tag) ==
    IF tag \in DOMAIN m.converters_by_tag
    THEN [ res |-> IF Len(Get(m.converters_by_tag, KeyZero)) = 0
                   THEN ReturnEmptyList
                   ELSE ReturnConverter(Get(m.converters_by_tag, KeyZero)[1]),
           fields |-> [m EXCEPT !.converters_by_tag =
                                    Put(@, KeyZero, Get(m.converters_by_tag, KeyZero))] ]
    ELSE [ res |-> Raise("KeyError", tag), fields |-> m ]

\* get_converter_for_type
CurrentGetConverterForType(m, typ) ==
    IF typ \in DOMAIN m.converters_by_type
    THEN ReturnConverter(m.converters_by_type[typ][1])
    ELSE LET class_name == GetClassName(typ, TRUE)
         IN  IF class_name \in DOMAIN m.converters_by_type_class_name
             THEN ReturnConverter(m.converters_by_type_class_name[class_name][1])
             ELSE Raise("KeyError", GetClassName(typ, TRUE))

(***************************************************************************)
(* asdf/_converter.py: ConverterManager                                    *)
(***************************************************************************)
ConverterManagerClass == "asdf._converter.ConverterManager"

\* a converter of this generation has one `tag`
ConverterTag(c) == ConverterTags(c)[1].uri

ConverterManagerFields ==
    [ converters_by_tag |-> EmptyDict,
      converters_by_type |-> EmptyDict,
      warned_types |-> {},
      warned_tags |-> {} ]

RECURSIVE ManagerIndexConverters(_, _)
\* for converter in extension.converters: index it by its tag and its types
ManagerIndexConverters(m, convs) ==
    IF convs = << >> THEN m
    ELSE ManagerIndexConverters(
             [ m EXCEPT
                 !.converters_by_tag = AppendTo(@, ConverterTag(Head(convs).delegate), Head(convs)),
                 !.converters_by_type = AppendToAll(@, ConverterTypes(Head(convs).delegate), Head(convs)) ],
             Tail(convs))

RECURSIVE ConverterManagerInit(_, _)
\* ConverterManager.__init__(extensions), from the fields m on
ConverterManagerInit(m, exts) ==
    IF exts = << >> THEN m
    ELSE ConverterManagerInit(ManagerIndexConverters(m, LegacyConverters(Head(exts))), Tail(exts))

\* tag_supported
TagSupported(m, tag) == tag \in DOMAIN m.converters_by_tag

\* type_supported
TypeSupported(m, typ) == typ \in DOMAIN m.converters_by_type

\* `tag.__name__` of the warning's message: a tag is a str, which has none
TagName(tag) == [value |-> None, exc |-> "AttributeError"]

\* from_tag: what it returns and the fields it leaves.  The subscript of a
\* defaultdict(list) stores an empty list under a missing key.
FromTag(m, tag) ==
    LET converters == Get(m.converters_by_tag, tag)
        looked == [m EXCEPT !.converters_by_tag = Put(@, tag, converters)]
    IN  IF Len(converters) = 0
        THEN [res |-> Raise("ValueError", tag), fields |-> looked]
        ELSE IF Len(converters) > 1
        THEN IF tag \notin m.warned_tags
             THEN IF TagName(tag).exc # None
                  THEN [res |-> Raise(TagName(tag).exc, None), fields |-> looked]
                  ELSE [res |-> ReturnNone,
                        fields |-> [looked EXCEPT !.warned_tags = @ \cup {tag}]]
             ELSE [res |-> ReturnNone, fields |-> looked]
        ELSE [res |-> ReturnConverter(converters[1]), fields |-> looked]

\* from_type: what it returns and the fields it leaves
FromType(m, typ) ==
    LET converters == Get(m.converters_by_type, typ)
        looked == [m EXCEPT !.converters_by_type = Put(@, typ, converters)]
    IN  IF Len(converters) = 0
        THEN [res |-> Raise("ValueError", typ), fields |-> looked]
        ELSE [ res |-> ReturnConverter(converters[Len(converters)]),
               fields |-> IF Len(converters) > 1
                          THEN [looked EXCEPT !.warned_types = @ \cup {typ}]
                          ELSE looked ]

(***************************************************************************)
(* The managers as state machines                                          *)
(***************************************************************************)
mgrVars == << cls, m1, m2, cm, last >>
convVars == << children, beh, phase, stack, table, invoked, gens, refs, used, error, passed >>
objVars == << px, call >>
vars == << mgrVars, convVars, objVars >>

\* no conversion is under way
NoConversion ==
    /\ children = << >> /\ beh = << >> /\ phase = "idle" /\ stack = << >>
    /\ table = << >> /\ invoked = << >> /\ gens = << >> /\ refs = << >>
    /\ used = {} /\ error = None /\ passed = << >>

\* no proxy or context object is under test
NoObject == px = << >> /\ call = << >>

\* ExtensionManager.__init__ of asdf/extension.py always ends with the
\* exception of _reset.  The instances there are, are those __init__ was
\* running on; the methods are followed on them.
InitLegacy ==
    /\ NoConversion
    /\ NoObject
    /\ cls = LegacyClass
    /\ \E xs \in InputLists :
          LET r == LegacyInit([i \in DOMAIN xs |-> MaybeWrap(xs[i])])
          IN  /\ m1 = r.fields
              /\ last = Call("__init__", None, NoExtension, Outcome(r.exc))
    /\ m2 = CurrentFields
    /\ cm = ConverterManagerFields

InitCurrent ==
    /\ NoConversion
    /\ NoObject
    /\ cls = CurrentClass
    /\ \E xs \in InputLists :
          LET r == CurrentInit(xs)
          IN  /\ m2 = r.fields
              /\ last = Call("__init__", None, NoExtension, Outcome(r.exc))
    /\ m1 = LegacyFields
    /\ cm = ConverterManagerFields

InitConverterManager ==
    /\ NoConversion
    /\ NoObject
    /\ cls = ConverterManagerClass
    /\ \E xs \in InputLists :
          /\ \A i \in DOMAIN xs : xs[i].raw
          /\ cm = ConverterManagerInit(ConverterManagerFields, [i \in DOMAIN xs |-> MaybeWrap(xs[i])])
    /\ last = Call("__init__", None, NoExtension, ReturnNone)
    /\ m1 = LegacyFields
    /\ m2 = CurrentFields

Init == InitLegacy \/ InitCurrent \/ InitConverterManager

\* ---- asdf/extension.py
AddExtension(x) ==
    /\ cls = LegacyClass
    /\ LegacyPresent(m1, MaybeWrap(x)) \/ Len(m1.extensions) < MaxExtensions
    /\ LET r == LegacyAddExtension(m1, MaybeWrap(x))
       IN  /\ m1' = r.fields
           /\ last' = Call("add_extension", x.delegate, MaybeWrap(x), Outcome(r.exc))
    /\ UNCHANGED << cls, m2, cm >>
    /\ UNCHANGED << convVars, objVars >>

RemoveExtension(x) ==
    /\ cls = LegacyClass
    /\ LET r == LegacyRemoveExtension(m1, MaybeWrap(x))
       IN  /\ m1' = r.fields
           /\ last' = Call("remove_extension", x.delegate, MaybeWrap(x), Outcome(r.exc))
    /\ UNCHANGED << cls, m2, cm >>
    /\ UNCHANGED << convVars, objVars >>

GetConverterForTag(tag) ==
    /\ cls = LegacyClass
    /\ last' = Call("get_converter_for_tag", tag, NoExtension, LegacyGetConverterForTag(m1, tag))
    /\ UNCHANGED << cls, m1, m2, cm >>
    /\ UNCHANGED << convVars, objVars >>

GetConverterForType(typ) ==
    /\ cls = LegacyClass
    /\ last' = Call("get_converter_for_type", typ, NoExtension, LegacyGetConverterForType(m1, typ))
    /\ UNCHANGED << cls, m1, m2, cm >>
    /\ UNCHANGED << convVars, objVars >>

\* ---- asdf/extension/_extension.py
CallHandlesTag(tag) ==
    /\ cls = CurrentClass /\ m2.built
    /\ last' = Call("handles_tag", tag, NoExtension, ReturnBool(HandlesTag(m2, tag)))
    /\ UNCHANGED << cls, m1, m2, cm >>
    /\ UNCHANGED << convVars, objVars >>

CallHandlesType(typ) ==
    /\ cls = CurrentClass /\ m2.built
    /\ last' = Call("handles_type", typ, NoExtension, ReturnBool(HandlesType(m2, typ)))
    /\ UNCHANGED << cls, m1, m2, cm >>
    /\ UNCHANGED << convVars, objVars >>

CallGetConverterForTag(tag) ==
    /\ cls = CurrentClass /\ m2.built
    /\ LET r == CurrentGetConverterForTag(m2, tag)
       IN  /\ m2' = r.fields
           /\ last' = Call("get_converter_for_tag", tag, NoExtension, r.res)
    /\ UNCHANGED << cls, m1, cm >>
    /\ UNCHANGED << convVars, objVars >>

CallGetConverterForType(typ) ==
    /\ cls = CurrentClass /\ m2.built
    /\ last' = Call("get_converter_for_type", typ, NoExtension, CurrentGetConverterForType(m2, typ))
    /\ UNCHANGED << cls, m1, m2, cm >>
    /\ UNCHANGED << convVars, objVars >>

\* ---- asdf/_converter.py
\* the tags and types the ConverterManager is asked about
AskedTags == {T1, T9}
AskedTypes == {"Ty1", "Ty9"}

CallTagSupported(tag) ==
    /\ cls = ConverterManagerClass
    /\ last' = Call("tag_supported", tag, NoExtension, ReturnBool(TagSupported(cm, tag)))
    /\ UNCHANGED << cls, m1, m2, cm >>
    /\ UNCHANGED << convVars, objVars >>

CallTypeSupported(typ) ==
    /\ cls = ConverterManagerClass
    /\ last' = Call("type_supported", typ, NoExtension, ReturnBool(TypeSupported(cm, typ)))
    /\ UNCHANGED << cls, m1, m2, cm >>
    /\ UNCHANGED << convVars, objVars >>

CallFromTag(tag) ==
    /\ cls = ConverterManagerClass
    /\ LET r == FromTag(cm, tag)
       IN  /\ cm' = r.fields
           /\ last' = Call("from_tag", tag, NoExtension, r.res)
    /\ UNCHANGED << cls, m1, m2 >>
    /\ UNCHANGED << convVars, objVars >>

CallFromType(typ) ==
    /\ cls = ConverterManagerClass
    /\ LET r == FromType(cm, typ)
       IN  /\ cm' = r.fields
           /\ last' = Call("from_type", typ, NoExtension, r.res)
    /\ UNCHANGED << cls, m1, m2 >>
    /\ UNCHANGED << convVars, objVars >>

Next ==
    \/ \E x \in Inputs : AddExtension(x)
    \/ \E x \in Inputs : RemoveExtension(x)
    \/ \E tag \in TagURIs : GetConverterForTag(tag)
    \/ \E typ \in TypeObjects : GetConverterForType(typ)
    \/ \E tag \in TagURIs : CallHandlesTag(tag)
    \/ \E typ \in TypeObjects : CallHandlesType(typ)
    \/ \E tag \in TagURIs : CallGetConverterForTag(tag)
    \/ \E typ \in TypeObjects : CallGetConverterForType(typ)
    \/ \E tag \in AskedTags : CallTagSupported(tag)
    \/ \E typ \in AskedTypes : CallTypeSupported(typ)
    \/ \E tag \in AskedTags : CallFromTag(tag)
    \/ \E typ \in AskedTypes : CallFromType(typ)

Spec == Init /\ [][Next]_vars

(***************************************************************************)
(* Tree conversion: the objects, and how the fixture converters behave     *)
(***************************************************************************)
\* most values a fixture generator yields after its first
MaxLaterYields == 2
\* deepest nesting of conversions the walk enters
MaxDepth == 4

Directions == {"to_tree", "from_tree"}

\* the identities under conversion: objects on the way to the tree, the
\* nodes made for them on the way back
Objects == {"o1", "o2"}
Root == "o1"

\* type(obj)
TypeOf(obj) == IF obj = "o1" THEN "Ty1" ELSE "Ty2"

\* the object graphs: a node whose child list holds itself, a cycle through
\* a second object, a child referenced twice, a lone object
Graphs ==
    { [o \in Objects |-> IF o = "o1" THEN << "o1" >> ELSE << >>],
      [o \in Objects |-> IF o = "o1" THEN << "o2" >> ELSE << "o1" >>],
      [o \in Objects |-> IF o = "o1" THEN << "o2", "o2" >> ELSE << >>],
      [o \in Objects |-> IF o = "o1" THEN << "o2", "o1" >> ELSE << "o2" >>],
      [o \in Objects |-> << >>] }

\* a converter's to_tree / from_tree: a plain return or a generator, a
\* node that is already a tagged.Tagged or not, and the number of values
\* the generator yields after the first
Behaviours ==
    {b \in [gen : BOOLEAN, tagged : BOOLEAN, later : 0..MaxLaterYields] :
        ~b.gen => b.later = 0}

\* the tag a fixture converter puts on a node it tags itself: the first of
\* its declared tags among those it was given, else its first declared tag
FixtureTag(c, tags) ==
    LET declared == LegacyConverterTags(c)
        offered == {i \in DOMAIN declared : declared[i] \in tags}
    IN  IF offered = {} THEN declared[1] ELSE declared[Min(offered)]

\* a value handed out for an identity: the node or object, the tag it
\* carries (None when untagged), and which call of the converter made it
Value(id, tag, serial) == [id |-> id, tag |-> tag, serial |-> serial]
NoValue == Value("-", None, 0)

\* a converter's generator: whether one was made, how many times next()
\* was delivered to it, how many times it ran to its end
Generator(created, resumed, finished) ==
    [created |-> created, resumed |-> resumed, finished |-> finished]
NoGenerator == Generator(FALSE, 0, 0)

\* tagged.tag_object(tag_or_tags, node) with no candidate tag: the empty
\* set is attached as the tag
EmptyTagSet == "set()"

\* what one run of an engine's code gives its caller: an exception, or the
\* value yielded or returned; whether the converter was called on the way,
\* the generator it left, and the extension marked as used
Step(exc, value, called, generator, extension) ==
    [exc |-> exc, value |-> value, called |-> called,
     generator |-> generator, extension |-> extension]

\* the fixture converter's to_yaml_tree / to_tree: the node (tagged by the
\* converter or not) and the generator that yielded it, if any.  A
\* generator has been advanced to its first yield by the engine's next().
ConverterToTree(c, obj, tags, b, serial) ==
    [ node |-> Value(obj, IF b.tagged THEN FixtureTag(c, tags) ELSE None, serial),
      generator |-> IF b.gen THEN Generator(TRUE, 1, 0) ELSE NoGenerator ]

\* the fixture converter's from_yaml_tree / from_tree: the object, or the
\* generator (not started yet) whose first value it is
ConverterFromTree(node, b, serial) ==
    [ object |-> Value(node.id, None, serial),
      generator |-> IF b.gen THEN Generator(TRUE, 0, 0) ELSE NoGenerator ]

\* next() on a fixture generator: it yields its next value, or runs to its
\* end (StopIteration)
GeneratorNext(g, b) ==
    IF g.finished > 0 THEN [stopped |-> TRUE, generator |-> g]
    ELSE IF g.resumed <= b.later
    THEN [stopped |-> FALSE, generator |-> Generator(TRUE, g.resumed + 1, g.finished)]
    ELSE [stopped |-> TRUE, generator |-> Generator(TRUE, g.resumed + 1, g.finished + 1)]

(***************************************************************************)
(* asdf/extension.py: ExtensionManager.to_yaml_tree / from_yaml_tree       *)
(***************************************************************************)
\* `iter(tags).next()`: a set iterator has no method `next`
IterNext == "AttributeError"

\* the fields after add_extension was called for each extension in turn,
\* the caller going on after each call's exception
RECURSIVE LegacyAfterAdds(_, _)
LegacyAfterAdds(m, exts) ==
    IF exts = << >> THEN m
    ELSE LegacyAfterAdds(LegacyAddExtension(m, Head(exts)).fields, Tail(exts))

\* what a converter is given as `tag`: nothing, one tag URI, or a set of
\* tag URIs
Argument(kind, tag, tags) == [kind |-> kind, tag |-> tag, tags |-> tags]
NoArgument == Argument("none", None, {})

\* to_yaml_tree's tag_or_tags: the candidate tags are the manager's tags
\* that the converter lists; a single candidate is to be taken out of the
\* set with iter(tags).next(), several (or none) are passed on as the set.
\* No call of select_tag is made.
TagOrTags(m, converter) ==
    LET tags == m.tags \cap Range(LegacyConverterTags(converter.delegate))
    IN  IF Cardinality(tags) = 1
        THEN [exc |-> IterNext, argument |-> NoArgument]
        ELSE [exc |-> None, argument |-> Argument("set", None, tags)]

\* to_yaml_tree, from the first next() to `yield node` or to the exception
ToYamlTree(m, obj, b, serial) ==
    IF TypeOf(obj) \notin m.types
    THEN Step("TypeError", NoValue, FALSE, NoGenerator, NoExtension)
    ELSE LET converter == LegacyGetConverterForType(m, TypeOf(obj)).converter
             tags == m.tags \cap Range(LegacyConverterTags(converter.delegate))
         IN  IF Cardinality(tags) = 1
             THEN Step(IterNext, NoValue, FALSE, NoGenerator, NoExtension)
             ELSE LET r == ConverterToTree(converter.delegate, obj, tags, b, serial)
                  IN  IF r.node.tag # None
                      THEN Step(None, r.node, TRUE, r.generator, converter.extension)
                      ELSE IF Cardinality(tags) > 1
                      THEN Step("RuntimeError", NoValue, TRUE, r.generator, NoExtension)
                      ELSE Step(None, [r.node EXCEPT !.tag = EmptyTagSet], TRUE,
                                r.generator, converter.extension)

\* to_yaml_tree after `yield node`: `yield from generator`, one next() of
\* the caller at a time; finished when to_yaml_tree itself ends
YieldFrom(g, b) ==
    IF ~g.created THEN [finished |-> TRUE, generator |-> g]
    ELSE LET r == GeneratorNext(g, b)
         IN  [finished |-> r.stopped, generator |-> r.generator]

\* from_yaml_tree: the converter's result is returned as it is
FromYamlTree(m, node, b, serial) ==
    IF node.tag \notin m.tags
    THEN Step("TypeError", NoValue, FALSE, NoGenerator, NoExtension)
    ELSE LET found == LegacyGetConverterForTag(m, node.tag)
         IN  IF found.kind # "converter"
             THEN Step("AttributeError", NoValue, FALSE, NoGenerator, NoExtension)
             ELSE LET r == ConverterFromTree(node, b, serial)
                  IN  Step(None, r.object, TRUE, r.generator, found.converter.extension)

(***************************************************************************)
(* asdf/mapper.py: AsdfMapper.to_tree_tagged                               *)
(***************************************************************************)
MapperClass == "asdf.mapper.AsdfMapper"

\* self.schema_id, and the tag a fixture mapper puts on a node itself
SchemaId == "schema-1.0"
MapperTag == "tag:mapper"

\* the fixture mapper's to_tree: the node (tagged by the mapper or not) and
\* the generator that yielded it, if any, advanced to its first yield
MapperToTree(obj, b, serial) ==
    [ node |-> Value(obj, IF b.tagged THEN MapperTag ELSE None, serial),
      generator |-> IF b.gen THEN Generator(TRUE, 1, 0) ELSE NoGenerator ]

\* _maybe_tag_node
MaybeTagNode(node, schema_id) ==
    IF node.tag # None THEN node ELSE [node EXCEPT !.tag = schema_id]

\* to_tree_tagged, from the first next() to `yield node`
ToTreeTagged(obj, b, serial) ==
    LET r == MapperToTree(obj, b, serial)
    IN  Step(None, MaybeTagNode(r.node, SchemaId), TRUE, r.generator, NoExtension)

(***************************************************************************)
(* The walk that drives the engines over an object graph.  It keeps a      *)
(* table of the values handed out, keyed by identity, for the length of    *)
(* one top-level conversion, and consults it before it starts a            *)
(* conversion.                                                             *)
(***************************************************************************)
\* a conversion under way: the identity, and the child to visit next
Frame(id, k) == [id |-> id, k |-> k]

Top == stack[Len(stack)]
Pop(st) == SubSeq(st, 1, Len(st) - 1)

\* the walk looks at a reference to an identity it has not dealt with yet
AtReference == phase \in Directions /\ error = None /\ stack # << >> /\ Top.k = 0

\* the walk is inside the conversion of Top.id
InConversion == phase \in Directions /\ error = None /\ stack # << >> /\ Top.k > 0

\* the identity is never taken for one already seen
NeverInFlight(t, id) == FALSE

\* the table holds a value for the identity
InFlight(t, id) == id \in DOMAIN t

\* the engine's first run for the identity, by direction and engine
Dispatch(id) ==
    LET serial == invoked[phase][id] + 1
    IN  IF phase = "from_tree"
        THEN FromYamlTree(m1, table["to_tree"][id], beh, serial)
        ELSE IF cls = MapperClass
        THEN ToTreeTagged(id, beh, serial)
        ELSE ToYamlTree(m1, id, beh, serial)

\* the `tag` argument of the call of the converter the engine makes for the
\* identity
Given(id) ==
    IF phase = "from_tree" THEN Argument("tag", table["to_tree"][id].tag, {})
    ELSE IF cls = MapperClass THEN NoArgument
    ELSE LET converter == LegacyGetConverterForType(m1, TypeOf(id)).converter
         IN  TagOrTags(m1, converter).argument

\* a reference to an identity in the table resolves to the value in it
Resolve ==
    /\ AtReference
    /\ InFlight(table[phase], Top.id)
    /\ refs' = [refs EXCEPT ![phase] = @ \cup {table[phase][Top.id]}]
    /\ stack' = Pop(stack)
    /\ UNCHANGED << mgrVars, objVars, children, beh, phase, table, invoked, gens, used, error, passed >>

\* a reference to a new identity starts its conversion: the engine runs to
\* the first value, which is entered in the table; on the way back the
\* walk itself pulls the first value of a generator
Start ==
    /\ AtReference
    /\ ~InFlight(table[phase], Top.id)
    /\ LET id == Top.id
           r == Dispatch(id)
           pulled == IF phase = "from_tree" /\ r.generator.created
                     THEN GeneratorNext(r.generator, beh).generator
                     ELSE r.generator
       IN  /\ invoked' = [invoked EXCEPT ![phase][id] = @ + (IF r.called THEN 1 ELSE 0)]
           /\ passed' = IF r.called THEN [passed EXCEPT ![phase][id] = Given(id)] ELSE passed
           /\ IF r.exc # None
              THEN /\ error' = r.exc
                   /\ gens' = [gens EXCEPT ![phase][id] = r.generator]
                   /\ UNCHANGED << table, refs, used, stack >>
              ELSE /\ table' = [table EXCEPT ![phase] = Put(@, id, r.value)]
                   /\ refs' = [refs EXCEPT ![phase] = @ \cup {r.value}]
                   /\ gens' = [gens EXCEPT ![phase][id] = pulled]
                   /\ used' = IF r.extension = NoExtension THEN used
                              ELSE used \cup {r.extension}
                   /\ stack' = [stack EXCEPT ![Len(stack)] = Frame(id, 1)]
                   /\ UNCHANGED error
    /\ UNCHANGED << mgrVars, objVars, children, beh, phase >>

\* the walk goes on to the next child of the value under conversion
Descend ==
    /\ InConversion
    /\ Top.k <= Len(children[Top.id])
    /\ Len(stack) < MaxDepth
    /\ stack' = Append([stack EXCEPT ![Len(stack)] = Frame(Top.id, Top.k + 1)],
                       Frame(children[Top.id][Top.k], 0))
    /\ UNCHANGED << mgrVars, objVars, children, beh, phase, table, invoked, gens, refs, used, error, passed >>

\* the children are done: the generator is resumed, one next() a step,
\* until it ends; what it yields now is dropped
Resume ==
    /\ InConversion
    /\ Top.k > Len(children[Top.id])
    /\ LET r == YieldFrom(gens[phase][Top.id], beh)
       IN  /\ gens' = [gens EXCEPT ![phase][Top.id] = r.generator]
           /\ stack' = IF r.finished THEN Pop(stack) ELSE stack
    /\ UNCHANGED << mgrVars, objVars, children, beh, phase, table, invoked, refs, used, error, passed >>

\* the tree is complete: it is read back with a table of its own
ReadBack ==
    /\ phase = "to_tree" /\ error = None /\ stack = << >>
    /\ cls = LegacyClass
    /\ phase' = "from_tree"
    /\ stack' = << Frame(Root, 0) >>
    /\ UNCHANGED << mgrVars, objVars, children, beh, table, invoked, gens, refs, used, error, passed >>

\* the conversion is over
Finish ==
    /\ error = None /\ stack = << >>
    /\ \/ phase = "from_tree"
       \/ phase = "to_tree" /\ cls = MapperClass
    /\ phase' = "done"
    /\ UNCHANGED << mgrVars, objVars, children, beh, stack, table, invoked, gens, refs, used, error, passed >>

\* the extension lists of the managers that convert
ConversionLists ==
    {l \in InputLists : /\ Len(l) <= 2
                        /\ \A i \in DOMAIN l : l[i].raw /\ l[i].delegate \in {"A", "B", "D"}}

ConversionInit ==
    /\ \/ /\ cls = LegacyClass
          /\ \E xs \in ConversionLists :
                m1 = LegacyAfterAdds(LegacyFields, [i \in DOMAIN xs |-> MaybeWrap(xs[i])])
       \/ /\ cls = MapperClass
          /\ m1 = LegacyFields
    /\ m2 = CurrentFields
    /\ cm = ConverterManagerFields
    /\ last = Call("__init__", None, NoExtension, ReturnNone)
    /\ children \in Graphs
    /\ beh \in Behaviours
    /\ phase = "to_tree"
    /\ stack = << Frame(Root, 0) >>
    /\ table = [d \in Directions |-> EmptyDict]
    /\ invoked = [d \in Directions |-> [o \in Objects |-> 0]]
    /\ gens = [d \in Directions |-> [o \in Objects |-> NoGenerator]]
    /\ refs = [d \in Directions |-> {}]
    /\ used = {}
    /\ error = None
    /\ passed = [d \in Directions |-> [o \in Objects |-> NoArgument]]
    /\ NoObject

ConversionNext == Resolve \/ Start \/ Descend \/ Resume \/ ReadBack \/ Finish

Conversion == ConversionInit /\ [][ConversionNext]_vars

\* the walk is one thread that runs on until the conversion is over
FairConversion == Conversion /\ WF_vars(ConversionNext)

\* the extension lists of the managers that read a tree
ReadLists ==
    {l \in UNION {[1..n -> {Input(d, None, TRUE) : d \in {"A", "B", "D", "F"}}] : n \in 0..2} :
        \A i, j \in DOMAIN l : i # j => l[i].delegate # l[j].delegate}

\* a tree loaded from a file is read: its nodes carry the tag written in
\* the file, and no converter of this run made them
ReadInit ==
    /\ cls = LegacyClass
    /\ \E xs \in ReadLists :
          m1 = LegacyAfterAdds(LegacyFields, [i \in DOMAIN xs |-> MaybeWrap(xs[i])])
    /\ m2 = CurrentFields
    /\ cm = ConverterManagerFields
    /\ last = Call("__init__", None, NoExtension, ReturnNone)
    /\ children \in Graphs
    /\ beh \in Behaviours
    /\ phase = "from_tree"
    /\ stack = << Frame(Root, 0) >>
    /\ \E t \in TagURIs :
          table = [d \in Directions |->
                      IF d = "to_tree" THEN [o \in Objects |-> Value(o, t, 0)]
                      ELSE EmptyDict]
    /\ invoked = [d \in Directions |-> [o \in Objects |-> 0]]
    /\ gens = [d \in Directions |-> [o \in Objects |-> NoGenerator]]
    /\ refs = [d \in Directions |-> {}]
    /\ used = {}
    /\ error = None
    /\ passed = [d \in Directions |-> [o \in Objects |-> NoArgument]]
    /\ NoObject

\* objects are written to a tree and read back, or a given tree is read
Dispatching == (ConversionInit \/ ReadInit) /\ [][ConversionNext]_vars

(***************************************************************************)
(* asdf/extension/_serialization_context.py and asdf/extension.py:         *)
(* SerializationContext                                                    *)
(***************************************************************************)
ContextClass == "asdf.extension._serialization_context.SerializationContext"
LegacyContextClass == "asdf.extension.SerializationContext"
ContextClasses == {ContextClass, LegacyContextClass}

\* the arguments of __init__
Versions == {"1.4.0", "1.5.0"}
TheManager == "extension_manager"

\* the extensions a caller marks: objects kept apart by identity
Markable == {ExtensionProxy(d, p) : d \in {"A", "B", "D"}, p \in Packages}

\* SerializationContext.__init__(version, extension_manager)
ContextFields(version, extension_manager) ==
    [ version |-> version,
      extension_manager |-> extension_manager,
      extensions_used |-> {} ]

\* SerializationContext.__init__() of asdf/extension.py
LegacyContextFields == [ extensions_used |-> {} ]

\* the set is emptied and holds the new element only
Replace(set, e) == {e}

\* set.add
SetAdd(set, e) == set \cup {e}

\* mark_extension_used, the same in both classes
MarkUsed(ctx, extension) ==
    [ctx EXCEPT !.extensions_used = SetAdd(@, extension)]

(***************************************************************************)
(* Extensions told apart by the optional attributes they define: M has an  *)
(* extension_uri and nothing else, R requires a standard version and is    *)
(* enabled by default, W requires one and is always enabled, L has the     *)
(* legacy shape (types and tag_mapping, no extension_uri), U states a      *)
(* requirement that does not parse, O one that is no string, N is a bare   *)
(* object() with neither shape.  BC lists a converter that is an object(), *)
(* BT such a tag, BN such a legacy class name.                             *)
(***************************************************************************)
ShapedDelegates == {"M", "R", "W", "L", "U", "O", "N", "BC", "BT", "BN"}

Absent == "absent"
Unparseable == "asdf-standard >= 1.4.0"
AnObject == "object()"

\* the attributes of the delegate, Absent where it defines none
Attributes(e) ==
    LET none == [ extension_uri |-> TRUE, types_and_tag_mapping |-> FALSE,
                  asdf_standard_requirement |-> Absent,
                  default_enabled |-> Absent, always_enabled |-> Absent,
                  malformed |-> Absent ]
    IN  CASE e = "R" -> [none EXCEPT !.asdf_standard_requirement = ">=1.4.0",
                                     !.default_enabled = "True"]
          [] e = "W" -> [none EXCEPT !.asdf_standard_requirement = ">=1.4.0",
                                     !.always_enabled = "True"]
          [] e = "L" -> [none EXCEPT !.extension_uri = FALSE, !.types_and_tag_mapping = TRUE]
          [] e = "N" -> [none EXCEPT !.extension_uri = FALSE]
          [] e = "BC" -> [none EXCEPT !.malformed = "converters"]
          [] e = "BT" -> [none EXCEPT !.malformed = "tags"]
          [] e = "BN" -> [none EXCEPT !.malformed = "legacy_class_names"]
          [] e = "U" -> [none EXCEPT !.asdf_standard_requirement = Unparseable]
          [] e = "O" -> [none EXCEPT !.asdf_standard_requirement = AnObject]
          [] OTHER -> none

\* ASDF Standard versions, and their place in the order of versions
StandardVersions == {"1.3.0", "1.4.0", "1.5.0"}
Release(v) == CASE v = "1.3.0" -> 3 [] v = "1.4.0" -> 4 [] v = "1.5.0" -> 5

\* SpecifierSet(): every version; SpecifierSet(">=1.4.0")
SpecifierSet(from) == [from |-> from]
AnyVersion == SpecifierSet(0)
\* version in specifier_set
Contains(spec, v) == Release(v) >= spec.from

\* the asdf_standard_requirement property of both proxy classes, as it
\* parses the delegate's attribute
ParseRequirement(e) ==
    LET value == Attributes(e).asdf_standard_requirement
    IN  IF value = Absent THEN [exc |-> None, value |-> AnyVersion]
        ELSE IF value = ">=1.4.0" THEN [exc |-> None, value |-> SpecifierSet(4)]
        ELSE IF value = Unparseable THEN [exc |-> "ValueError", value |-> AnyVersion]
        ELSE [exc |-> "TypeError", value |-> AnyVersion]

(***************************************************************************)
(* asdf/extension/_extension.py and asdf/extension.py: ExtensionProxy,     *)
(* the tags it answers with                                                *)
(***************************************************************************)
ProxyClass == "asdf.extension._extension.ExtensionProxy"
LegacyProxyClass == "asdf.extension.ExtensionProxy"
ProxyClasses == {ProxyClass, LegacyProxyClass}

\* ExtensionProxy.__init__(delegate): self._tags = None in the class of
\* asdf/extension/_extension.py; the class of asdf/extension.py keeps no
\* such field, and the field stays None (not made) here
ProxyFields(delegate, legacy) ==
    [ delegate |-> delegate, package |-> None, legacy |-> legacy,
      asdf_standard_requirement |-> [made |-> FALSE, value |-> AnyVersion],
      tags |-> [made |-> FALSE, list |-> << >>] ]

\* isinstance(delegate, AsdfExtension), by the __subclasshook__ of the
\* proxy's module: any object at all in asdf/extension/_extension.py; one
\* with types and tag_mapping, or with extension_uri, in asdf/extension.py
IsExtension(class, delegate) ==
    \/ class = ProxyClass
    \/ Attributes(delegate).extension_uri
    \/ Attributes(delegate).types_and_tag_mapping

\* ExtensionProxy.__init__: the exception it raises, or None
ProxyInit(class, delegate) ==
    IF IsExtension(class, delegate) THEN None ELSE "TypeError"

\* the `tags` property of asdf/extension/_extension.py: the list is made
\* at the first read and kept in self._tags
ReadProxyTags(p) ==
    IF p.tags.made THEN [fields |-> p, result |-> p.tags.list, exc |-> None]
    ELSE IF Attributes(p.delegate).malformed = "tags"
    THEN [fields |-> p, result |-> << >>, exc |-> "TypeError"]
    ELSE LET result == ProxyTags(ExtensionProxy(p.delegate, p.package))
         IN  [fields |-> [p EXCEPT !.tags = [made |-> TRUE, list |-> result]],
              result |-> result, exc |-> None]

\* the `tag_descriptions` property of asdf/extension.py: made anew at each
\* read
ReadTagDescriptions(p) ==
    IF Attributes(p.delegate).malformed = "tags"
    THEN [fields |-> p, result |-> << >>, exc |-> "TypeError"]
    ELSE [fields |-> p, result |-> TagDescriptions(ExtensionProxy(p.delegate, p.package)),
          exc |-> None]

\* the properties of a proxy that are read
PropertyNames == {"asdf_standard_requirement", "legacy", "always_enabled"}

\* proxy.asdf_standard_requirement: asdf/extension/_extension.py parses the
\* delegate's attribute at the first read and keeps the result,
\* asdf/extension.py parses it at every read
ReadRequirement(class, p) ==
    LET r == ParseRequirement(p.delegate)
    IN  IF class = ProxyClass /\ p.asdf_standard_requirement.made
        THEN [fields |-> p, value |-> p.asdf_standard_requirement.value, exc |-> None]
        ELSE IF r.exc # None THEN [fields |-> p, value |-> None, exc |-> r.exc]
        ELSE IF class = ProxyClass
        THEN [fields |-> [p EXCEPT !.asdf_standard_requirement =
                                      [made |-> TRUE, value |-> r.value]],
              value |-> r.value, exc |-> None]
        ELSE [fields |-> p, value |-> r.value, exc |-> None]

\* proxy.always_enabled: the delegate's value; without one, False in
\* asdf/extension/_extension.py and self._legacy in asdf/extension.py
ReadAlwaysEnabled(class, p) ==
    IF Attributes(p.delegate).always_enabled # Absent
    THEN Attributes(p.delegate).always_enabled = "True"
    ELSE IF class = ProxyClass THEN FALSE ELSE p.legacy

\* reading a property of the proxy
ProxyProperty(class, p, name) ==
    CASE name = "asdf_standard_requirement" -> ReadRequirement(class, p)
      [] name = "legacy" -> [fields |-> p, value |-> p.legacy, exc |-> None]
      [] name = "always_enabled" ->
            [fields |-> p, value |-> ReadAlwaysEnabled(class, p), exc |-> None]

(***************************************************************************)
(* asdf/extension/_converter.py: ConverterProxy.select_tag                 *)
(***************************************************************************)
ConverterProxyClass == "asdf.extension._converter.ConverterProxy"

\* longest list of candidate tags handed to select_tag
MaxCandidates == 3

\* the lists of candidate tags
CandidateLists == UNION {[1..n -> TagURIs] : n \in 0..MaxCandidates}

\* the wrapped converter's select_tag: absent (a class that only has the
\* four required members), inherited from Converter, or its own: one that
\* answers with a constant, one that takes the last candidate
SelectTagKinds == {"absent", "inherited", "constant", "last"}
SelectTagResult == "select_tag result"

\* the converters a proxy under test wraps: two well-formed ones, one whose
\* tags end with an object(), one whose types end with an object(), and an
\* object() that has none of the members of a converter
WrappedConverters == {"c2", "c7", "ct", "cy", "cn"}

\* what follows the declared elements of the converter's lists
MalformedConverter(c) ==
    CASE c = "ct" -> "tags"
      [] c = "cy" -> "types"
      [] OTHER -> Absent

\* Converter.__subclasshook__: the four required members are there
IsConverterClass(c) == c # "cn"

\* ConverterProxy.__init__(delegate, extension): the fields
ConverterProxyFields(delegate, extension, select_tag) ==
    [ delegate |-> delegate, extension |-> ExtensionProxy(extension, None),
      select_tag |-> select_tag, tags |-> [made |-> FALSE, list |-> << >>] ]

\* ConverterProxy.__init__(delegate, extension): the exception
ConverterProxyInit(delegate) ==
    IF IsConverterClass(delegate) THEN None ELSE "TypeError"

\* a declared tag made a definition with every field but the URI dropped
Bare(tag) == AsdfTagDefinition(tag.uri, FALSE)

\* a declared tag as ConverterProxy.tags holds it: TagDefinition(tag) for a
\* string, the TagDefinition itself otherwise
Promote(tag) == AsdfTagDefinition(tag.uri, tag.rich)

\* ConverterProxy.tags
ReadConverterTags(p) ==
    IF p.tags.made THEN [fields |-> p, value |-> p.tags.list, exc |-> None]
    ELSE IF MalformedConverter(p.delegate) = "tags"
         THEN [fields |-> p, value |-> None, exc |-> "TypeError"]
    ELSE LET declared == ConverterTags(p.delegate)
             tags == [i \in DOMAIN declared |-> Promote(declared[i])]
         IN  [fields |-> [p EXCEPT !.tags = [made |-> TRUE, list |-> tags]],
              value |-> tags, exc |-> None]

\* ConverterProxy.types: list(delegate.types), the object() included
ReadConverterTypes(p) ==
    [fields |-> p,
     value |-> ConverterTypes(p.delegate) \o
                  (IF MalformedConverter(p.delegate) = "types" THEN << AnObject >> ELSE << >>),
     exc |-> None]

ConverterPropertyNames == {"tags", "types"}

ConverterProxyProperty(p, name) ==
    IF name = "tags" THEN ReadConverterTags(p) ELSE ReadConverterTypes(p)

\* the last element of the list
Last(tags) ==
    IF tags = << >> THEN [exc |-> "IndexError", value |-> None]
    ELSE [exc |-> None, value |-> tags[Len(tags)]]

\* tags[0]
First(tags) ==
    IF tags = << >> THEN [exc |-> "IndexError", value |-> None]
    ELSE [exc |-> None, value |-> tags[1]]

\* Converter.select_tag, the default of the base class
ConverterSelectTag(tags) == First(tags)

\* the select_tag method of the wrapped converter
DelegateSelectTag(kind, tags) ==
    CASE kind = "inherited" -> ConverterSelectTag(tags)
      [] kind = "constant" -> [exc |-> None, value |-> SelectTagResult]
      [] kind = "last" -> IF tags = << >> THEN [exc |-> "IndexError", value |-> None]
                          ELSE [exc |-> None, value |-> tags[Len(tags)]]

\* ConverterProxy.select_tag
ProxySelectTag(p, tags) ==
    IF p.select_tag = "absent" THEN First(tags)
    ELSE DelegateSelectTag(p.select_tag, tags)

(***************************************************************************)
(* == and hash of the two proxies                                          *)
(***************************************************************************)
\* an object a proxy is compared with: the proxy itself, another proxy made
\* for a delegate, or a raw delegate; owner is the extension of a
\* ConverterProxy and the package name of an ExtensionProxy
Other(kind, delegate, owner) == [kind |-> kind, delegate |-> delegate, owner |-> owner]

Itself(class, p) ==
    Other("self", p.delegate,
          IF class = ConverterProxyClass THEN p.extension.delegate ELSE p.package)

Others(class, p) ==
    CASE class = ConverterProxyClass ->
            {Itself(class, p)} \cup
            {Other(k, c, e) : k \in {"proxy", "raw"}, c \in {"c2", "c7"}, e \in {"B", "C"}}
      [] class \in ProxyClasses ->
            {Itself(class, p)} \cup
            {Other(k, d, pkg) : k \in {"proxy", "raw"}, d \in {"M", "R"}, pkg \in Packages}
      [] OTHER -> {}

\* object.__eq__: the same object
ObjectEq(other) == other.kind = "self"

\* ConverterProxy.__eq__(other)
ConverterProxyEq(p, other) ==
    IF other.kind \in {"self", "proxy"} THEN other.delegate = p.delegate ELSE FALSE

\* proxy == other
ProxyEq(class, p, other) ==
    IF class = ConverterProxyClass THEN ConverterProxyEq(p, other) ELSE ObjectEq(other)

\* hash(proxy) = hash(other): ConverterProxy.__hash__ is hash(id(delegate)),
\* the hash of any other object is that of the object itself
ProxyHashEq(class, p, other) ==
    IF class = ConverterProxyClass
    THEN other.kind \in {"self", "proxy"} /\ other.delegate = p.delegate
    ELSE other.kind = "self"

\* proxy in {other}
InSetOf(class, p, other) ==
    ProxyHashEq(class, p, other) /\ (other.kind = "self" \/ ProxyEq(class, p, other))

\* what ExtensionProxy.maybe_wrap is handed: the proxy itself, or a raw
\* object of one of the shapes
Wrappable(class, p) ==
    IF class \in ProxyClasses
    THEN {Itself(class, p)} \cup {Other("raw", d, None) : d \in ShapedDelegates}
    ELSE {}

\* ExtensionProxy.maybe_wrap(delegate)
ProxyMaybeWrap(class, x) ==
    IF x.kind # "raw" THEN [value |-> x, exc |-> None]
    ELSE IF ProxyInit(class, x.delegate) # None
         THEN [value |-> None, exc |-> ProxyInit(class, x.delegate)]
    ELSE [value |-> Other("proxy", x.delegate, None), exc |-> None]

(***************************************************************************)
(* asdf/_config.py: AsdfConfig.get_default_extensions and                  *)
(* get_always_extensions; asdf/entry_points.py: get_extensions             *)
(***************************************************************************)
ConfigClass == "asdf._config.AsdfConfig"

\* most extensions a configuration is made with
MaxInstalled == 2

\* an installed extension: a proxy of one of the two classes, with the
\* `legacy` argument it was made with
Installed(class, delegate, legacy) == [class |-> class, delegate |-> delegate, legacy |-> legacy]

Installable ==
    {Installed(LegacyProxyClass, d, FALSE) : d \in {"M", "R", "W"}}
        \cup {Installed(LegacyProxyClass, "L", TRUE), Installed(ProxyClass, "R", FALSE)}

\* what the entry points of the installed packages provide
EntryPointElements == << Installed(LegacyProxyClass, "R", FALSE) >>

\* entry_points.get_extensions(): the function collects the elements and
\* ends without a return statement
GetExtensions == [none |-> TRUE, list |-> << >>]

\* AsdfConfig.__init__(extensions=...): the list given, or None
ConfigFields(given, list) == [ extensions |-> [none |-> ~given, list |-> list] ]

\* the `extensions` property
ConfigExtensions(config) ==
    IF config.extensions.none THEN GetExtensions ELSE config.extensions

\* e.default_enabled / e.always_enabled of an installed proxy: the value,
\* or the AttributeError of a class that has no such property
Flag(e, name) ==
    IF name = "default_enabled"
    THEN IF e.class = ProxyClass THEN [exc |-> "AttributeError", value |-> FALSE]
         ELSE [exc |-> None, value |-> Attributes(e.delegate).default_enabled = "True"]
    ELSE IF Attributes(e.delegate).always_enabled # Absent
    THEN [exc |-> None, value |-> Attributes(e.delegate).always_enabled = "True"]
    ELSE [exc |-> None, value |-> IF e.class = ProxyClass THEN FALSE ELSE e.legacy]

\* the condition of the list comprehension for one extension; with_default
\* tells get_default_extensions from get_always_extensions
Selected(e, version, with_default) ==
    LET default == IF with_default THEN Flag(e, "default_enabled")
                   ELSE [exc |-> None, value |-> FALSE]
        always == Flag(e, "always_enabled")
        enabled == default.value \/ always.value
        requirement == ParseRequirement(e.delegate)
    IN  IF default.exc # None THEN [exc |-> default.exc, value |-> FALSE]
        ELSE IF ~enabled THEN [exc |-> None, value |-> FALSE]
        ELSE IF requirement.exc # None THEN [exc |-> requirement.exc, value |-> FALSE]
        ELSE [exc |-> None, value |-> Contains(requirement.value, version)]

\* get_default_extensions / get_always_extensions
GetEnabledExtensions(config, version, with_default) ==
    LET extensions == ConfigExtensions(config)
        failing == {i \in DOMAIN extensions.list :
                       Selected(extensions.list[i], version, with_default).exc # None}
    IN  IF extensions.none THEN [exc |-> "TypeError", list |-> << >>]
        ELSE IF failing # {}
        THEN [exc |-> Selected(extensions.list[Min(failing)], version, with_default).exc,
              list |-> << >>]
        ELSE [exc |-> None,
              list |-> SelectSeq(extensions.list,
                                 LAMBDA e : Selected(e, version, with_default).value)]

(***************************************************************************)
(* The context and proxy objects as state machines                         *)
(***************************************************************************)
\* a call on the object: the method, its argument, what it returned and
\* the exception it raised
ObjectCall(op, arg, res, exc) == [op |-> op, arg |-> arg, res |-> res, exc |-> exc]

\* the delegates a proxy under test wraps
WrappedDelegates == ExtensionDelegates \cup MismatchedDelegates \cup ShapedDelegates

\* the constructor of the object under test returned
Constructed == ~(call.op = "__init__" /\ call.exc # None)

ObjectInit ==
    /\ m1 = LegacyFields /\ m2 = CurrentFields /\ cm = ConverterManagerFields
    /\ last = Call("__init__", None, NoExtension, ReturnNone)
    /\ NoConversion
    /\ \/ /\ cls = ContextClass
          /\ \E v \in Versions : px = ContextFields(v, TheManager)
          /\ call = ObjectCall("__init__", None, None, None)
       \/ /\ cls = LegacyContextClass
          /\ px = LegacyContextFields
          /\ call = ObjectCall("__init__", None, None, None)
       \/ /\ cls \in ProxyClasses
          /\ \E d \in WrappedDelegates, legacy \in BOOLEAN :
                /\ px = ProxyFields(d, legacy)
                /\ call = ObjectCall("__init__", d, None, ProxyInit(cls, d))
       \/ /\ cls = ConverterProxyClass
          /\ \E c \in WrappedConverters, k \in SelectTagKinds :
                /\ px = ConverterProxyFields(c, "B", k)
                /\ call = ObjectCall("__init__", c, None, ConverterProxyInit(c))
       \/ /\ cls = ConfigClass
          /\ call = ObjectCall("__init__", None, None, None)
          /\ \/ px = ConfigFields(FALSE, << >>)
             \/ \E l \in UNION {[1..n -> Installable] : n \in 0..MaxInstalled} :
                   px = ConfigFields(TRUE, l)

\* ctx.mark_extension_used(extension)
MarkExtensionUsed(extension) ==
    /\ cls \in ContextClasses
    /\ px' = MarkUsed(px, extension)
    /\ call' = ObjectCall("mark_extension_used", extension, None, None)
    /\ UNCHANGED << mgrVars, convVars >>

\* proxy.tags, or proxy.tag_descriptions in the class of asdf/extension.py
ReadTags ==
    /\ cls \in ProxyClasses /\ Constructed
    /\ LET r == IF cls = ProxyClass THEN ReadProxyTags(px) ELSE ReadTagDescriptions(px)
       IN  /\ px' = r.fields
           /\ call' = ObjectCall("tags", None, r.result, r.exc)
    /\ UNCHANGED << mgrVars, convVars >>

\* proxy.asdf_standard_requirement, proxy.legacy, proxy.always_enabled
ReadProperty(name) ==
    /\ cls \in ProxyClasses /\ Constructed
    /\ LET r == ProxyProperty(cls, px, name)
       IN  /\ px' = r.fields
           /\ call' = ObjectCall("get", name, r.value, r.exc)
    /\ UNCHANGED << mgrVars, convVars >>

\* proxy.select_tag(obj, tags, ctx)
SelectTag(tags) ==
    /\ cls = ConverterProxyClass /\ Constructed
    /\ LET r == ProxySelectTag(px, tags)
       IN  call' = ObjectCall("select_tag", tags, r.value, r.exc)
    /\ UNCHANGED << mgrVars, convVars, px >>

\* proxy.tags, proxy.types of a ConverterProxy
ReadConverterProperty(name) ==
    /\ cls = ConverterProxyClass /\ Constructed
    /\ LET r == ConverterProxyProperty(px, name)
       IN  /\ px' = r.fields
           /\ call' = ObjectCall("get", name, r.value, r.exc)
    /\ UNCHANGED << mgrVars, convVars >>

\* proxy == other, hash(proxy) == hash(other), proxy in {other}
Compare(other) ==
    /\ cls \in ProxyClasses \cup {ConverterProxyClass} /\ Constructed
    /\ call' = ObjectCall("__eq__", other,
                          [equal |-> ProxyEq(cls, px, other),
                           hash_equal |-> ProxyHashEq(cls, px, other),
                           in_set |-> InSetOf(cls, px, other)], None)
    /\ UNCHANGED << mgrVars, convVars, px >>

\* ExtensionProxy.maybe_wrap(x)
MaybeWrapCall(x) ==
    /\ cls \in ProxyClasses /\ Constructed
    /\ LET r == ProxyMaybeWrap(cls, x)
       IN  call' = ObjectCall("maybe_wrap", x, r.value, r.exc)
    /\ UNCHANGED << mgrVars, convVars, px >>

\* config.get_default_extensions(version) / get_always_extensions(version)
GetExtensionsFor(version, with_default) ==
    /\ cls = ConfigClass
    /\ LET r == GetEnabledExtensions(px, version, with_default)
       IN  call' = ObjectCall(IF with_default THEN "get_default_extensions"
                              ELSE "get_always_extensions",
                              version, r.list, r.exc)
    /\ UNCHANGED << mgrVars, convVars, px >>

ObjectNext ==
    \/ \E e \in Markable : MarkExtensionUsed(e)
    \/ ReadTags
    \/ \E tags \in CandidateLists : SelectTag(tags)
    \/ \E v \in StandardVersions, d \in BOOLEAN : GetExtensionsFor(v, d)
    \/ \E name \in PropertyNames : ReadProperty(name)
    \/ \E name \in ConverterPropertyNames : ReadConverterProperty(name)
    \/ \E other \in Others(cls, px) : Compare(other)
    \/ \E x \in Wrappable(cls, px) : MaybeWrapCall(x)

ObjectCalls == ObjectInit /\ [][ObjectNext]_vars

(***************************************************************************)
(* asdf/_config.py: get_config, config_context and the options of           *)
(* AsdfConfig, called from several threads                                 *)
(***************************************************************************)
ConfigModule == "asdf._config"

Threads == {"t1", "t2"}

\* deepest nesting of config_context in one thread
MaxNesting == 2
\* most calls that set an option or change the resource mappings
MaxCalls == 2

\* the AsdfConfig objects: _global_config, and the copies config_context
\* makes, named by the thread that made them and the depth of its stack then
GlobalConfig == [thread |-> "-", level |-> 0]
ConfigIds ==
    {GlobalConfig} \cup
    {[thread |-> t, level |-> k] : t \in Threads, k \in 1..(MaxNesting * Cardinality(Threads))}

\* entry_points.get_resource_mappings(): what the installed packages provide
GetResourceMappings == << "m0" >>

\* self._resource_manager = None
NoResourceManager == [none |-> TRUE, mappings |-> << >>]

\* AsdfConfig(): the fields of a config made with no argument
AsdfConfig ==
    [ resource_mappings |-> [none |-> TRUE, list |-> << >>],
      resource_manager |-> NoResourceManager,
      extensions |-> ConfigFields(FALSE, << >>).extensions,
      validate_on_read |-> "True",
      default_asdf_standard_version |-> "1.5.0" ]

\* the `resource_mappings` property: loaded from the entry points when None
ResourceMappings(c) ==
    IF c.resource_mappings.none
    THEN [fields |-> [c EXCEPT !.resource_mappings = [none |-> FALSE, list |-> GetResourceMappings]],
          value |-> GetResourceMappings]
    ELSE [fields |-> c, value |-> c.resource_mappings.list]

\* add_resource_mapping(mapping): a copy of the list, with the mapping appended
AddResourceMapping(c, mapping) ==
    LET r == ResourceMappings(c)
    IN  [r.fields EXCEPT !.resource_mappings = [none |-> FALSE, list |-> Append(r.value, mapping)],
                         !.resource_manager = NoResourceManager]

\* remove_resource_mapping(mapping): a new list without the mapping
RemoveResourceMapping(c, mapping) ==
    LET r == ResourceMappings(c)
    IN  [r.fields EXCEPT !.resource_mappings =
                              [none |-> FALSE, list |-> SelectSeq(r.value, LAMBDA m : m # mapping)],
                         !.resource_manager = NoResourceManager]

\* reset_resources()
ResetResources(c) ==
    [c EXCEPT !.resource_mappings = [none |-> TRUE, list |-> << >>],
              !.resource_manager = NoResourceManager]

\* isinstance(value, bool)
Booleans == {"True", "False"}

\* what a thread does to its current config
Change(op, value) == [op |-> op, value |-> value]
Changes ==
    { Change("add_resource_mapping", "ma"), Change("remove_resource_mapping", "m0"),
      Change("reset_resources", None),
      Change("validate_on_read", "False"),
      Change("default_asdf_standard_version", "1.4.0") }

\* the config after the call, and the exception the call raised
ApplyChange(c, ch) ==
    CASE ch.op = "add_resource_mapping" ->
            [fields |-> AddResourceMapping(c, ch.value), exc |-> None]
      [] ch.op = "remove_resource_mapping" ->
            [fields |-> RemoveResourceMapping(c, ch.value), exc |-> None]
      [] ch.op = "reset_resources" -> [fields |-> ResetResources(c), exc |-> None]
      [] ch.op = "validate_on_read" ->
            IF ch.value \notin Booleans THEN [fields |-> c, exc |-> "TypeError"]
            ELSE [fields |-> [c EXCEPT !.validate_on_read = ch.value], exc |-> None]
      [] ch.op = "default_asdf_standard_version" ->
            IF ch.value \notin StandardVersions THEN [fields |-> c, exc |-> "ValueError"]
            ELSE [fields |-> [c EXCEPT !.default_asdf_standard_version = ch.value], exc |-> None]

\* one storage for every thread
Process(thread) == "t1"

\* _local = _ConfigLocal(): the storage of the thread
Local(thread) == thread

\* the first config of the stack
Outermost(config_stack) == config_stack[1]

\* config_stack[-1]
Innermost(config_stack) == config_stack[Len(config_stack)]

\* get_config()
GetConfig(config_stack) ==
    IF Len(config_stack) = 0 THEN GlobalConfig ELSE Innermost(config_stack)

\* the base config itself
Same(base, fresh) == base

\* copy.copy(base_config): another object with the fields of the base
Copy(base, fresh) == fresh

\* the module under test: the configs by identity, the config_stack of each
\* thread's storage, and, kept for the properties only, the contexts each
\* thread is inside of with the stack as it was on entry, and the number of
\* calls made on a config
ConfigInit ==
    /\ m1 = LegacyFields /\ m2 = CurrentFields /\ cm = ConverterManagerFields
    /\ last = Call("__init__", None, NoExtension, ReturnNone)
    /\ NoConversion
    /\ cls = ConfigModule
    /\ px = [ heap |-> [id \in ConfigIds |-> AsdfConfig],
              stacks |-> [t \in Threads |-> << >>],
              active |-> [t \in Threads |-> << >>],
              calls |-> 0 ]
    /\ call = ObjectCall("import", None, None, None)

\* the thread enters `with config_context() as config`
Enter(t) ==
    /\ cls = ConfigModule
    /\ Len(px.active[t]) < MaxNesting
    /\ LET config_stack == px.stacks[Local(t)]
           base_config == IF Len(config_stack) = 0 THEN GlobalConfig
                          ELSE config_stack[Len(config_stack)]
           config == Copy(base_config, [thread |-> t, level |-> Len(config_stack) + 1])
       IN  /\ px' = [px EXCEPT
                        !.heap[config] = px.heap[base_config],
                        !.stacks[Local(t)] = Append(config_stack, config),
                        !.active[t] = Append(@, [config |-> config, before |-> config_stack])]
           /\ call' = ObjectCall("__enter__", [thread |-> t], config, None)
    /\ UNCHANGED << mgrVars, convVars >>

\* the body of the thread's innermost `with` ends, by running to its end or
\* by raising: the finally clause pops the stack
Exit(t, raised) ==
    /\ cls = ConfigModule
    /\ px.active[t] # << >>
    /\ LET config_stack == px.stacks[Local(t)]
           popped == config_stack[Len(config_stack)]
           rest == SubSeq(config_stack, 1, Len(config_stack) - 1)
           held == {GlobalConfig} \cup Range(rest)
                      \cup UNION {Range(px.stacks[u]) : u \in Threads \ {Local(t)}}
       IN  IF config_stack = << >>
           THEN /\ px' = [px EXCEPT !.active[t] = SubSeq(@, 1, Len(@) - 1)]
                /\ call' = ObjectCall("__exit__", [thread |-> t, raised |-> raised],
                                      None, "IndexError")
           ELSE /\ px' = [px EXCEPT
                             !.heap[popped] = IF popped \in held THEN @ ELSE AsdfConfig,
                             !.stacks[Local(t)] = rest,
                             !.active[t] = SubSeq(@, 1, Len(@) - 1)]
                /\ call' = ObjectCall("__exit__", [thread |-> t, raised |-> raised],
                                      [config |-> popped, fields |-> px.heap[popped]],
                                      IF raised THEN "Exception" ELSE None)
    /\ UNCHANGED << mgrVars, convVars >>

\* the thread calls get_config()
CallGetConfig(t) ==
    /\ cls = ConfigModule
    /\ call' = ObjectCall("get_config", [thread |-> t], GetConfig(px.stacks[Local(t)]), None)
    /\ UNCHANGED << mgrVars, convVars, px >>

\* the thread sets an option of get_config() or changes its resource mappings
Configure(t, ch) ==
    /\ cls = ConfigModule
    /\ px.calls < MaxCalls
    /\ LET config == GetConfig(px.stacks[Local(t)])
           r == ApplyChange(px.heap[config], ch)
       IN  /\ px' = [px EXCEPT !.heap[config] = r.fields,
                               !.calls = @ + 1]
           /\ call' = ObjectCall(ch.op, [thread |-> t], config, r.exc)
    /\ UNCHANGED << mgrVars, convVars >>

ConfigNext ==
    \/ \E t \in Threads : Enter(t)
    \/ \E t \in Threads, raised \in BOOLEAN : Exit(t, raised)
    \/ \E t \in Threads : CallGetConfig(t)
    \/ \E t \in Threads, ch \in Changes : Configure(t, ch)

ConfigContexts == ConfigInit /\ [][ConfigNext]_vars

(***************************************************************************)
(* asdf/commands/edit.py: the edit command on one file.  The editor and    *)
(* the prompts are where the command waits; an action runs the code from   *)
(* one wait to the next, or to the return.                                 *)
(***************************************************************************)
EditModule == "asdf.commands.edit"

\* the number of times the user saves something in the editor
MaxEdits == 2

\* the versions of the ASDF Standard a content can name in its comments
ContentVersions == {"1.4.0", "1.5.0"}

\* what the YAML of a content is to open_asdf: a valid tree, a tree that fails
\* validation, text that is not YAML, text that fails in another way
Trees == {"tree", "invalid", "garbled", "broken"}

Lengths == {1, 2}

Content(version, tree, length) == [version |-> version, tree |-> tree, length |-> length]

Contents == {Content(v, t, n) : v \in ContentVersions, t \in Trees, n \in Lengths}

NoContent == Content(None, None, 0)

\* the bytes of a file as the command reads them: whether they start an ASDF
\* file, the YAML, the bytes up to the first block or the end, and whether
\* binary blocks follow
FileBytes(asdf, content, available, blocks) ==
    [asdf |-> asdf, yaml |-> content, available |-> available, blocks |-> blocks]

NotAsdfFile == FileBytes(FALSE, NoContent, 0, FALSE)

AsdfFiles ==
    {FileBytes(TRUE, c, c.length + pad, b) : c \in Contents, pad \in {0, 1}, b \in BOOLEAN}

\* read_yaml(fd): the content, the bytes available for it, contains_blocks
ReadYaml(file) == [content |-> file.yaml, available_bytes |-> file.available,
                   contains_blocks |-> file.blocks]

\* parse_version(content): the version of the ASDF Standard in the comments
ParseVersion(content) == content.version

\* open_asdf(io.BytesIO(new_content)): the exception it raises, if any
OpenAsdf(content) ==
    CASE content.tree = "garbled" -> "YAMLError"
      [] content.tree = "invalid" -> "ValidationError"
      [] content.tree = "broken" -> "Exception"
      [] OTHER -> None

\* the padding added after the YAML of a rewritten file
CalculatePadding(length) == 1

\* write_edited_yaml(path, new_content, available_bytes): the content and its
\* padding over the start of the file
WriteEditedYaml(file, new_content, available_bytes) ==
    FileBytes(file.asdf, new_content,
              IF available_bytes > new_content.length THEN available_bytes
              ELSE new_content.length,
              file.blocks)

\* write_edited_yaml_larger(path, new_content, version): the file written
\* again with the new content, its padding, the blocks and their index
WriteEditedYamlLarger(file, new_content, version) ==
    FileBytes(file.asdf, new_content,
              new_content.length + CalculatePadding(new_content.length), file.blocks)

\* a test that lets every version through
Unchecked(new_version, original_version) == FALSE

\* new_version != original_version
VersionChanged(new_version, original_version) == new_version # original_version

\* a test that takes no answer for an abort
Never(choice) == FALSE

\* choice == "a"
Aborts(choice) == choice = "a"

\* the answers each prompt accepts
PromptChoices(pc) ==
    CASE pc = "validation" -> {"c", "f", "a"}
      [] pc \in {"version", "yaml", "error", "rewrite"} -> {"c", "a"}
      [] OTHER -> {}

Answers == {"c", "f", "a", "x"}

\* edit returns its status, "0" or "1", or nothing after an update: the with
\* blocks close and the temporary file is gone
Return(p, status) == [p EXCEPT !.pc = "returned", !.status = status]

\* the code after the loop: write in place when the content fits, expand a
\* file without blocks, and ask before a file with blocks is rewritten
Update(p) ==
    IF p.temp.length <= p.available_bytes
    THEN Return([p EXCEPT !.file = WriteEditedYaml(p.file, p.temp, p.available_bytes),
                          !.writes = Append(@, p.temp)], None)
    ELSE IF ~p.contains_blocks
    THEN Return([p EXCEPT !.file = WriteEditedYaml(p.file, p.temp, p.temp.length),
                          !.writes = Append(@, p.temp)], None)
    ELSE [p EXCEPT !.pc = "rewrite"]

\* one pass of the loop after the editor has closed, up to the next prompt,
\* the return or the update
Iteration(p) ==
    LET new_content == p.temp
        new_version == ParseVersion(new_content)
        raised == OpenAsdf(new_content)
    IN  IF new_content = p.original_content THEN Return(p, "0")
        ELSE IF VersionChanged(new_version, p.original_version)
        THEN [p EXCEPT !.pc = "version"]
        ELSE CASE raised = "YAMLError" -> [p EXCEPT !.pc = "yaml"]
               [] raised = "ValidationError" -> [p EXCEPT !.pc = "validation"]
               [] raised = "Exception" -> [p EXCEPT !.pc = "error"]
               [] OTHER -> Update(p)

\* the file on disk before the command runs, and the command not started;
\* original is kept for the properties only, as is writes, the contents
\* written to the file
EditInit ==
    /\ m1 = LegacyFields /\ m2 = CurrentFields /\ cm = ConverterManagerFields
    /\ last = Call("__init__", None, NoExtension, ReturnNone)
    /\ NoConversion
    /\ cls = EditModule
    /\ \E file \in AsdfFiles \cup {NotAsdfFile} :
          px = [ file |-> file, original |-> file, pc |-> "start", status |-> None,
                 original_content |-> NoContent, original_version |-> None,
                 available_bytes |-> 0, contains_blocks |-> FALSE,
                 temp |-> NoContent, edits |-> 0, writes |-> << >> ]
    /\ call = ObjectCall("main", None, None, None)

\* edit(path) up to the first open_editor
CallEdit ==
    /\ cls = EditModule
    /\ px.pc = "start"
    /\ LET read == ReadYaml(px.file)
       IN  px' = IF ~px.file.asdf THEN Return(px, "1")
                 ELSE [px EXCEPT !.pc = "editor",
                                 !.original_content = read.content,
                                 !.available_bytes = read.available_bytes,
                                 !.contains_blocks = read.contains_blocks,
                                 !.original_version = ParseVersion(read.content),
                                 !.temp = read.content]
    /\ call' = ObjectCall("edit", None, None, None)
    /\ UNCHANGED << mgrVars, convVars >>

\* the user leaves the temporary file with this content and closes the editor
OpenEditor(content) ==
    /\ cls = EditModule
    /\ px.pc = "editor"
    /\ px.edits < MaxEdits
    /\ px' = Iteration([px EXCEPT !.temp = content, !.edits = @ + 1])
    /\ call' = ObjectCall("open_editor", content, None, None)
    /\ UNCHANGED << mgrVars, convVars >>

\* the user answers the prompt the command waits at
RequestInput(choice) ==
    /\ cls = EditModule
    /\ PromptChoices(px.pc) # {}
    /\ px' = IF choice \notin PromptChoices(px.pc) THEN px
             ELSE IF Aborts(choice) THEN Return(px, "1")
             ELSE IF px.pc = "rewrite"
             THEN Return([px EXCEPT
                             !.file = WriteEditedYamlLarger(px.file, px.temp,
                                                            ParseVersion(px.temp)),
                             !.writes = Append(@, px.temp)], None)
             ELSE IF choice = "c" THEN [px EXCEPT !.pc = "editor"]
             ELSE Update(px)
    /\ call' = ObjectCall("request_input", choice, px.pc, None)
    /\ UNCHANGED << mgrVars, convVars >>

EditNext ==
    \/ CallEdit
    \/ \E content \in Contents : OpenEditor(content)
    \/ \E choice \in Answers : RequestInput(choice)

Editing == EditInit /\ [][EditNext]_vars

(***************************************************************************)
(* asdf/standard.py and asdf/mapper.py: the index of schema standards and  *)
(* the index of mappers that asks it for the schema ids in force           *)
(***************************************************************************)
MapperIndexClass == "asdf.mapper.MapperIndex"

\* the lengths of the lists the indices are built from
MaxStandards == 3
MaxMappers == 2

\* the characters of a decimal number below 100, and of a version a.b.c, by
\* their code points
Decimal(n) == IF n < 10 THEN << 48 + n >> ELSE << 48 + (n \div 10), 48 + (n % 10) >>

VersionText(release) ==
    Decimal(release[1]) \o << 46 >> \o Decimal(release[2]) \o << 46 >> \o Decimal(release[3])

\* a standard id "<name>-<version>", kept as the two sides of its last "-"
StandardId(name, release) == [name |-> name, text |-> VersionText(release)]

\* a SchemaStandard after __init__ has read the file at its path
SchemaStandard(name, release, schema_ids) ==
    [standard_id |-> StandardId(name, release), schema_ids |-> schema_ids]

SchemaStandards ==
    { SchemaStandard("core", << 1, 8, 0 >>, {"s1"}),
      SchemaStandard("core", << 1, 9, 0 >>, {"s1", "s2"}),
      SchemaStandard("core", << 1, 10, 0 >>, {"s2", "s3"}),
      SchemaStandard("astro", << 1, 0, 0 >>, {"s4"}),
      SchemaStandard("astro", << 2, 0, 0 >>, {"s5"}) }

\* a standard id no standard of the index has
MissingStandardId == StandardId("core", << 2, 0, 0 >>)

\* SchemaStandard.version: the text after the last "-" of the id
StandardVersion(standard) == standard.standard_id.text

\* SchemaStandard.name: the text before the last "-" of the id
StandardName(standard) == standard.standard_id.name

\* a > b on str: by the code points at the first place the two differ, the
\* longer one when one is the start of the other
StrGreater(a, b) ==
    LET differ == {i \in 1..Min({Len(a), Len(b)}) : a[i] # b[i]}
    IN  IF differ = {} THEN Len(a) > Len(b)
        ELSE a[Min(differ)] > b[Min(differ)]

\* the lists without repetition of at most n elements of S
ListsOf(S, n) ==
    {l \in UNION {[1..k -> S] : k \in 0..n} : \A i, j \in DOMAIN l : i # j => l[i] # l[j]}

\* the loop of SchemaStandardIndex.__init__ from the i-th standard on
RECURSIVE LatestStandardsByName(_, _, _)
LatestStandardsByName(standards, i, latest) ==
    IF i > Len(standards) THEN latest
    ELSE LET standard == standards[i]
             name == StandardName(standard)
         IN  LatestStandardsByName(standards, i + 1,
                IF \/ name \notin DOMAIN latest
                   \/ StrGreater(StandardVersion(standard), StandardVersion(latest[name]))
                THEN Put(latest, name, standard)
                ELSE latest)

\* SchemaStandardIndex(standards)
SchemaStandardIndexFields(standards) ==
    [ standards |-> standards,
      standards_by_id |-> [id \in {s.standard_id : s \in Range(standards)} |->
                              LET last_one == CHOOSE i \in DOMAIN standards :
                                      /\ standards[i].standard_id = id
                                      /\ \A j \in DOMAIN standards :
                                            standards[j].standard_id = id => j <= i
                              IN  standards[last_one]],
      latest_standards_by_name |-> LatestStandardsByName(standards, 1, EmptyDict) ]

\* the first loop of get_schema_ids from the i-th override on: the overrides
\* by name, or the id that is not recognized
RECURSIVE OverrideStandardsByName(_, _, _, _)
OverrideStandardsByName(index, override_standard_ids, i, overrides) ==
    IF i > Len(override_standard_ids) THEN [exc |-> None, by_name |-> overrides]
    ELSE LET standard_id == override_standard_ids[i]
         IN  IF standard_id \notin DOMAIN index.standards_by_id
             THEN [exc |-> "ValueError", by_name |-> overrides]
             ELSE LET standard == index.standards_by_id[standard_id]
                  IN  OverrideStandardsByName(index, override_standard_ids, i + 1,
                         Put(overrides, StandardName(standard), standard))

\* the override_standard_ids argument: None or a list of ids
NoOverride == [none |-> TRUE, ids |-> << >>]
Override(ids) == [none |-> FALSE, ids |-> ids]

\* SchemaStandardIndex.get_schema_ids(override_standard_ids)
GetSchemaIds(index, override_standard_ids) ==
    LET o == IF override_standard_ids.none THEN [exc |-> None, by_name |-> EmptyDict]
             ELSE OverrideStandardsByName(index, override_standard_ids.ids, 1, EmptyDict)
        standards == {IF name \in DOMAIN o.by_name THEN o.by_name[name]
                      ELSE index.latest_standards_by_name[name] :
                         name \in DOMAIN index.latest_standards_by_name}
    IN  IF o.exc # None THEN [exc |-> o.exc, schema_ids |-> {}]
        ELSE [exc |-> None, schema_ids |-> UNION {s.schema_ids : s \in standards}]

\* an AsdfMapper instance: its extension, its schema id, the types of its class
AsdfMapper(extension, schema_id, types) ==
    [extension |-> extension, schema_id |-> schema_id, types |-> types]

AsdfMappers ==
    { AsdfMapper("A", "s1", {"Ty1"}),
      AsdfMapper("A", "s2", {"Ty1"}),
      AsdfMapper("B", "s4", {"Ty1", "Ty2"}),
      AsdfMapper("C", "s1", {"Ty2"}) }

NoMapper == AsdfMapper(None, None, {})

\* the loop of MapperIndex.__init__ from the i-th mapper on
RECURSIVE IndexMappers(_, _, _)
IndexMappers(mappers, i, fields) ==
    IF i > Len(mappers) THEN fields
    ELSE LET mapper == mappers[i]
         IN  IF mapper.schema_id \in DOMAIN fields.mappers_by_schema_id
             THEN [fields EXCEPT !.exc = "ValueError"]
             ELSE IndexMappers(mappers, i + 1,
                     [fields EXCEPT
                         !.mappers_by_schema_id = Put(@, mapper.schema_id, mapper),
                         !.mappers_by_type_by_schema_id =
                             [typ \in (DOMAIN @) \cup mapper.types |->
                                 IF typ \in mapper.types
                                 THEN Put(IF typ \in DOMAIN @ THEN @[typ] ELSE EmptyDict,
                                          mapper.schema_id, mapper)
                                 ELSE @[typ]]])

\* MapperIndex(standard_index, mappers); given is kept for the properties only
MapperIndexFields(standard_index, mappers) ==
    IndexMappers(mappers, 1,
        [ standard_index |-> standard_index, given |-> mappers, exc |-> None,
          mappers_by_schema_id |-> EmptyDict,
          mappers_by_type_by_schema_id |-> EmptyDict ])

\* a selection that lets the schema ids of every standard through
Unfiltered(schema_ids, active) == schema_ids

\* schema_ids.intersection(self._standard_index.get_schema_ids())
Intersection(schema_ids, active) == schema_ids \cap active

\* MapperIndex.from_type(type)
MapperFromType(index, type) ==
    LET result == IF type \in DOMAIN index.mappers_by_type_by_schema_id
                  THEN index.mappers_by_type_by_schema_id[type] ELSE EmptyDict
        schema_ids == DOMAIN result
        intersection == Intersection(schema_ids,
                                     GetSchemaIds(index.standard_index, NoOverride).schema_ids)
    IN  IF Cardinality(intersection) = 0 THEN [exc |-> None, mapper |-> NoMapper]
        ELSE IF Cardinality(intersection) = 1
        THEN [exc |-> None, mapper |-> result[CHOOSE s \in intersection : TRUE]]
        ELSE [exc |-> "ValueError", mapper |-> NoMapper]

\* the lists of ids a caller overrides the latest standards with
OverrideLists ==
    {NoOverride} \cup {Override(ids) :
        ids \in ListsOf({StandardId("core", << 1, 8, 0 >>), StandardId("astro", << 1, 0, 0 >>),
                         MissingStandardId}, 2)}

\* an index of mappers over an index of standards, each built from a list
IndexInit ==
    /\ m1 = LegacyFields /\ m2 = CurrentFields /\ cm = ConverterManagerFields
    /\ last = Call("__init__", None, NoExtension, ReturnNone)
    /\ NoConversion
    /\ cls = MapperIndexClass
    /\ \E standards \in ListsOf(SchemaStandards, MaxStandards),
          mappers \in ListsOf(AsdfMappers, MaxMappers) :
          /\ px = MapperIndexFields(SchemaStandardIndexFields(standards), mappers)
          /\ call = ObjectCall("__init__", None, None, px.exc)

\* self._standard_index.get_schema_ids(override_standard_ids)
CallGetSchemaIds(override_standard_ids) ==
    /\ cls = MapperIndexClass
    /\ LET r == GetSchemaIds(px.standard_index, override_standard_ids)
       IN  call' = ObjectCall("get_schema_ids", override_standard_ids, r.schema_ids, r.exc)
    /\ UNCHANGED << mgrVars, convVars, px >>

\* index.from_type(type) on an index whose constructor returned
CallMapperFromType(type) ==
    /\ cls = MapperIndexClass
    /\ px.exc = None
    /\ LET r == MapperFromType(px, type)
       IN  call' = ObjectCall("from_type", type, r.mapper, r.exc)
    /\ UNCHANGED << mgrVars, convVars, px >>

IndexNext ==
    \/ \E override_standard_ids \in OverrideLists : CallGetSchemaIds(override_standard_ids)
    \/ \E type \in TypeObjects : CallMapperFromType(type)

Indexing == IndexInit /\ [][IndexNext]_vars

(***************************************************************************)
(* Reference notions of the properties, read off the fixtures              *)
(***************************************************************************)
\* the extension claims the tag: one of its converters supports it, and its
\* own tag list, when it declares one, names it
ClaimsTag(e, tag) ==
    /\ \E i \in DOMAIN ExtensionConverters(e) :
          tag \in Range(LegacyConverterTags(ExtensionConverters(e)[i]))
    /\ ExtensionTagsDeclared(e) =>
          \E i \in DOMAIN ExtensionTags(e) : ExtensionTags(e)[i].uri = tag

\* the extension claims the type, declared as the type object or by name
ClaimsType(e, typ) ==
    \E i \in DOMAIN ExtensionConverters(e) :
        \/ typ \in Range(ConverterTypes(ExtensionConverters(e)[i]))
        \/ GetClassName(typ, FALSE) \in Range(ConverterTypes(ExtensionConverters(e)[i]))

TagClaimants(exts, tag) == {i \in DOMAIN exts : ClaimsTag(exts[i].delegate, tag)}
TypeClaimants(exts, typ) == {i \in DOMAIN exts : ClaimsType(exts[i].delegate, typ)}

\* the converter (delegate) through which the earliest claimant claims the tag
EarliestTagConverter(exts, tag) ==
    LET e == exts[Min(TagClaimants(exts, tag))].delegate
        i == Min({k \in DOMAIN ExtensionConverters(e) :
                    tag \in Range(LegacyConverterTags(ExtensionConverters(e)[k]))})
    IN  ExtensionConverters(e)[i]

\* the converter (delegate) through which the earliest claimant claims the type
EarliestTypeConverter(exts, typ) ==
    LET e == exts[Min(TypeClaimants(exts, typ))].delegate
        i == Min({k \in DOMAIN ExtensionConverters(e) :
                    \/ typ \in Range(ConverterTypes(ExtensionConverters(e)[k]))
                    \/ GetClassName(typ, FALSE) \in Range(ConverterTypes(ExtensionConverters(e)[k]))})
    IN  ExtensionConverters(e)[i]

\* the result is that converter
IsConverter(res, c) == res.kind = "converter" /\ res.converter.delegate = c

\* the extensions the manager under test holds
Extensions ==
    IF cls = LegacyClass THEN m1.extensions
    ELSE IF cls = CurrentClass THEN m2.extensions
    ELSE << >>

\* the list without the entries of that delegate
Without(exts, d) == SelectSeq(exts, LAMBDA e : e.delegate # d)

(***************************************************************************)
(* Properties                                                              *)
(***************************************************************************)
\* C1: when two or more extensions of the list claim a tag,
\* get_converter_for_tag returns the converter of the earliest claimant, and
\* after remove_extension of that claimant the converter of the earliest
\* remaining one.
C1_EarliestTagClaimantWins ==
    [][ /\ ( /\ last'.op = "get_converter_for_tag"
             /\ Cardinality(TagClaimants(Extensions, last'.arg)) >= 2 )
           => IsConverter(last'.res, EarliestTagConverter(Extensions, last'.arg))
        /\ \A tag \in TagURIs :
             ( /\ cls = LegacyClass
               /\ last'.op = "remove_extension"
               /\ Cardinality(TagClaimants(m1.extensions, tag)) >= 2
               /\ m1.extensions[Min(TagClaimants(m1.extensions, tag))].delegate = last'.arg )
             => IsConverter(LegacyGetConverterForTag(m1', tag),
                            EarliestTagConverter(Without(m1.extensions, last'.arg), tag))
      ]_vars

\* C2: when two or more extensions of the list claim a type, as a type
\* object or by its class name, the lookup for the type returns the
\* converter of the earliest claimant, never a later one.
C2_EarliestTypeClaimantWins ==
    [][ /\ ( /\ last'.op = "get_converter_for_type"
             /\ Cardinality(TypeClaimants(Extensions, last'.arg)) >= 2 )
           => IsConverter(last'.res, EarliestTypeConverter(Extensions, last'.arg))
        /\ ( /\ last'.op = "from_type"
             /\ Len(Get(cm.converters_by_type, last'.arg)) >= 2 )
           => last'.res = ReturnConverter(cm.converters_by_type[last'.arg][1])
      ]_vars

\* C3: add_extension(x) with the delegate of x already present leaves the
\* extension list and every index as they were, and a second add_extension(x)
\* after a first leaves what the first left.
C3_AddExtensionIdempotent ==
    [][ (cls = LegacyClass /\ last'.op = "add_extension") =>
          /\ (\E i \in DOMAIN m1.extensions : m1.extensions[i].delegate = last'.arg)
                => (m1' = m1 /\ last'.res = ReturnNone)
          /\ LegacyAddExtension(m1', last'.ext).fields = m1'
      ]_vars

\* an add_extension that found the delegate present under another proxy
C3_Witness ==
    /\ cls = LegacyClass
    /\ last.op = "add_extension"
    /\ last.res = ReturnNone
    /\ \E i \in DOMAIN m1.extensions :
          m1.extensions[i].delegate = last.arg /\ m1.extensions[i] # last.ext

\* C4: after every add_extension and remove_extension the list and the
\* indices are those of a fresh ExtensionManager built from the list of
\* remaining extensions, and remove_extension(x) removes exactly the entries
\* with the delegate of x, keeping the order of the others.
C4_StateIsFreshManagerOfRemaining ==
    [][ /\ (cls = LegacyClass /\ last'.op = "remove_extension") =>
             /\ m1'.extensions = Without(m1.extensions, last'.arg)
             /\ m1' = LegacyAddAll(LegacyFields, Without(m1.extensions, last'.arg)).fields
        /\ (cls = LegacyClass /\ last'.op \in {"add_extension", "remove_extension"}) =>
             LET fresh == LegacyInit(m1'.extensions)
             IN  fresh.exc = None /\ fresh.fields = m1'
      ]_vars

\* the tag -> converter and type -> converter indices of the manager under test
ConverterIndices ==
    IF cls = LegacyClass THEN {m1.converters_by_tag, m1.converters_by_type}
    ELSE IF cls = CurrentClass
    THEN {m2.converters_by_tag, m2.converters_by_type, m2.converters_by_type_class_name}
    ELSE {}

\* the extension that declares the converter
Owner(c) == CHOOSE e \in ExtensionDelegates : c \in Range(ExtensionConverters(e))

\* where the extension stands in the list
Position(exts, e) == Min({i \in DOMAIN exts : exts[i].delegate = e})

\* the converter declares the key as one of its tags or types
Declares(c, key) == key \in Range(LegacyConverterTags(c)) \cup Range(ConverterTypes(c))

TagLookups == {"get_converter_for_tag", "from_tag"}
TypeLookups == {"get_converter_for_type", "from_type"}

\* C6: a converter lookup by a tag or a type that no enabled extension
\* handles raises a not-found error naming the tag or type; it does not
\* return None, an empty value or a default.
C6_UnknownLookupRaises ==
    ( \/ last.op \in TagLookups /\ last.arg = T9
      \/ last.op \in TypeLookups /\ last.arg = "Ty9" )
    => /\ last.res.kind = "raise"
       /\ last.res.exc \in {"KeyError", "ValueError", "TypeError"}
       /\ last.res.names = last.arg

\* C7: a tag or type claimed by several enabled extensions is not fatal:
\* indexing such extensions does not raise, and a lookup of the contested
\* tag or type returns a converter.
C7_ContestedIsNotFatal ==
    [][ /\ ( /\ cls = LegacyClass
             /\ last'.op = "add_extension"
             /\ \/ \E tag \in TagURIs : Cardinality(TagClaimants(m1'.extensions, tag)) >= 2
                \/ \E typ \in TypeObjects : Cardinality(TypeClaimants(m1'.extensions, typ)) >= 2 )
           => last'.res.kind # "raise"
        /\ ( /\ last'.op = "get_converter_for_tag"
             /\ Cardinality(TagClaimants(Extensions, last'.arg)) >= 2 )
           => last'.res.kind = "converter"
        /\ ( /\ last'.op = "get_converter_for_type"
             /\ Cardinality(TypeClaimants(Extensions, last'.arg)) >= 2 )
           => last'.res.kind = "converter"
        /\ ( /\ last'.op = "from_tag"
             /\ Len(Get(cm.converters_by_tag, last'.arg)) >= 2 )
           => last'.res.kind = "converter"
        /\ ( /\ last'.op = "from_type"
             /\ Len(Get(cm.converters_by_type, last'.arg)) >= 2 )
           => last'.res.kind = "converter"
      ]_vars

\* the objects a walk from these reaches
RECURSIVE Reach(_)
Reach(S) ==
    LET more == S \cup UNION {Range(children[o]) : o \in S}
    IN  IF more = S THEN S ELSE Reach(more)

\* the root's child list holds the root, directly or through other objects
SelfReferential == Root \in Reach(Range(children[Root]))

\* the conversion is over, with a result or with an exception
Ended == phase = "done" \/ error # None

\* C8: an object whose child list holds itself, directly or transitively,
\* of a type a converter is registered for, goes through to_tree and back
\* through from_tree, and in the result every reference to an identity,
\* the self-reference included, is the one reconstructed instance.
C8_RoundTripKeepsIdentity ==
    ( /\ cls = LegacyClass
      /\ SelfReferential
      /\ \A o \in Reach({Root}) : TypeOf(o) \in m1.types
      /\ Ended )
    => /\ error = None
       /\ InFlight(table["from_tree"], Root)
       /\ \A v, w \in refs["from_tree"] : v.id = w.id => v = w

\* C9: when to_tree gives a generator, its first value is the node, which
\* is tagged and handed out before the generator is resumed; the generator
\* is resumed after that only, runs to its end exactly once, and what it
\* yields later does not replace the node handed out.
C9_GeneratorProtocol ==
    [][ \A id \in Objects :
          LET before == gens["to_tree"][id]
              after == gens'["to_tree"][id]
          IN  /\ after.created =>
                    /\ id \in DOMAIN table'["to_tree"]
                    /\ table'["to_tree"][id].tag # None
              /\ after.resumed > 1 /\ after # before => id \in DOMAIN table["to_tree"]
              /\ id \in DOMAIN table["to_tree"] =>
                    /\ id \in DOMAIN table'["to_tree"]
                    /\ table'["to_tree"][id] = table["to_tree"][id]
              /\ after.finished <= 1
              /\ (phase' = "done" /\ after.created) => after.finished = 1
      ]_vars

Serializing ==
    /\ cls = LegacyClass /\ phase = "to_tree" /\ AtReference
    /\ Top.id \notin DOMAIN table["to_tree"]
    /\ TypeOf(Top.id) \in m1.types

\* the candidate tags for the object: the manager's enabled tags that the
\* converter bound to its type declares
Candidates(id) ==
    m1.tags \cap Range(LegacyConverterTags(
                         LegacyGetConverterForType(m1, TypeOf(id)).converter.delegate))

\* C11: serializing an object, a single candidate tag is the tag given to
\* to_tree; with another number of candidates the tag given to to_tree is
\* the one select_tag chose among them, and a choice outside the candidates
\* ends in an error without a call of to_tree.
C11_TagSelection ==
    [][ Serializing =>
          LET id == Top.id
              given == passed'["to_tree"][id]
          IN  /\ Cardinality(Candidates(id)) = 1 =>
                    /\ error' = None
                    /\ given.kind = "tag"
                    /\ given.tag \in Candidates(id)
              /\ Cardinality(Candidates(id)) # 1 =>
                    \/ given.kind = "tag" /\ given.tag \in Candidates(id)
                    \/ error' # None /\ invoked' = invoked
      ]_vars

\* the engine of asdf/extension.py is about to be handed the identity at
\* the top of the walk: an object on the way to the tree, a node on the
\* way back
Dispatched ==
    cls = LegacyClass /\ AtReference /\ ~InFlight(table[phase], Top.id)

\* no converter is bound to the type of the object, or to the tag of the
\* node
Unbound(id) ==
    IF phase = "to_tree"
    THEN LegacyGetConverterForType(m1, TypeOf(id)).kind # "converter"
    ELSE LegacyGetConverterForTag(m1, table["to_tree"][id].tag).kind # "converter"

\* the exception's message holds the type or the tag: the two TypeErrors
\* the engine raises itself format it in; the AttributeError of a call on
\* None names the missing attribute only
IdentifiesKey(exc) == exc = "TypeError"

\* C12: the dispatch of an object whose type has no bound converter, or of
\* a node whose tag has no bound converter, ends with an error that
\* identifies the type or tag; no value stands in for the result, and
\* extensions_used is as it was.
C12_UnboundDispatchFails ==
    [][ (Dispatched /\ Unbound(Top.id))
          => /\ error' # None
             /\ IdentifiesKey(error')
             /\ table'[phase] = table[phase]
             /\ used' = used
      ]_vars

\* the mapper engine is about to serialize the object at the top of the
\* walk
MapperSerializing ==
    /\ cls = MapperClass /\ phase = "to_tree" /\ AtReference
    /\ Top.id \notin DOMAIN table["to_tree"]

\* the tag the converter (or the mapper) puts on a node it tags itself
OwnTag(id) ==
    IF cls = MapperClass THEN MapperTag
    ELSE FixtureTag(LegacyGetConverterForType(m1, TypeOf(id)).converter.delegate,
                    Candidates(id))

\* the tags the engine may select for an untagged node
Selectable(id) == IF cls = MapperClass THEN {SchemaId} ELSE Candidates(id)

\* C13: the node produced by serializing an object carries a tag: a
\* result of the converter that is not tagged is annotated with the
\* selected tag, a result that is tagged already keeps its tag.
C13_NodeCarriesTag ==
    [][ (Serializing \/ MapperSerializing)
          => /\ Top.id \in DOMAIN table'["to_tree"]
             /\ LET node == table'["to_tree"][Top.id]
                IN  IF beh.tagged THEN node.tag = OwnTag(Top.id)
                    ELSE node.tag \in Selectable(Top.id)
      ]_vars

\* C14: mark_extension_used is additive and idempotent: over any sequence
\* of calls extensions_used only grows, the extension marked is in it
\* afterwards, marking an extension that is marked already changes
\* nothing, and version and extension_manager are never changed by
\* marking.
C14_MarkIsAdditiveIdempotent ==
    [][ (cls \in ContextClasses /\ call'.op = "mark_extension_used")
          => /\ px.extensions_used \subseteq px'.extensions_used
             /\ px'.extensions_used = px.extensions_used \cup {call'.arg}
             /\ call'.arg \in px.extensions_used => px' = px
             /\ cls = ContextClass =>
                   /\ px'.version = px.version
                   /\ px'.extension_manager = px.extension_manager
      ]_vars

\* mark_extension_used was called on a context made with a version and a
\* manager, and three extensions are marked
C14_Witness ==
    /\ cls = ContextClass
    /\ call.op = "mark_extension_used"
    /\ Cardinality(px.extensions_used) = 3
    /\ px.version \in Versions

\* the extension that owns the converter the engine invokes for the
\* identity in the direction
OwnerOf(d, id) ==
    IF d = "to_tree"
    THEN LegacyGetConverterForType(m1, TypeOf(id)).converter.extension
    ELSE LegacyGetConverterForTag(m1, table["to_tree"][id].tag).converter.extension

\* the extensions whose converters were invoked so far
Exercised ==
    LET calls == {c \in Directions \X Objects : invoked[c[1]][c[2]] > 0}
    IN  {OwnerOf(c[1], c[2]) : c \in calls}

\* C15: after any sequence of to_yaml_tree and from_yaml_tree dispatches
\* with one context, extensions_used is exactly the set of extensions that
\* own the converters that were invoked.
C15_UsedIsExercised ==
    (cls = LegacyClass /\ phase \in Directions \cup {"done"}) => used = Exercised

\* the tag URIs in a list of tag definitions
URIs(defs) == {defs[i].tag_uri : i \in DOMAIN defs}

\* the tag URIs the converters of the extension list
ConverterURIs(e) ==
    UNION {Range(LegacyConverterTags(ExtensionConverters(e)[i])) :
              i \in DOMAIN ExtensionConverters(e)}

\* the proxy was asked for its tags
TagsRead == cls \in ProxyClasses /\ call.op = "tags"

\* C16: the proxy of an extension that declares no tags of its own (tags
\* is None) answers with the tags of all of its converters.
C16_TagsDefaultToConverters ==
    (TagsRead /\ ~ExtensionTagsDeclared(px.delegate))
        => URIs(call.res) = ConverterURIs(px.delegate)

\* the tag URIs the extension declares itself
DeclaredURIs(e) == {ExtensionTags(e)[i].uri : i \in DOMAIN ExtensionTags(e)}

\* the proxy of asdf/extension/_extension.py was asked for the tags of an
\* extension that declares a tag list
DeclaredTagsRead ==
    cls = ProxyClass /\ call.op = "tags" /\ ExtensionTagsDeclared(px.delegate)

\* C17: a tag the extension declares and none of its converters supports
\* is left out of the proxy's tags, and no error is raised.
C17_UnsupportedTagDropped ==
    DeclaredTagsRead
        => \A uri \in DeclaredURIs(px.delegate) \ ConverterURIs(px.delegate) :
              call.exc = None /\ uri \notin URIs(call.res)

\* one of the extension's converters declares the URI with its optional
\* metadata
ConverterDescribes(e, uri) ==
    \E i \in DOMAIN ExtensionConverters(e) :
        Tag(uri, TRUE) \in Range(ConverterTags(ExtensionConverters(e)[i]))

\* C18: for a URI that the extension and one of its converters both
\* declare, the proxy's tags hold exactly one definition, with the metadata
\* of the side that gave a full definition when the other gave a bare
\* string, and with the extension's when both gave full definitions.
C18_SharedTagReconciled ==
    DeclaredTagsRead
        => \A i \in DOMAIN ExtensionTags(px.delegate) :
              LET tag == ExtensionTags(px.delegate)[i]
                  found == {k \in DOMAIN call.res : call.res[k].tag_uri = tag.uri}
              IN  tag.uri \in ConverterURIs(px.delegate)
                    => /\ Cardinality(found) = 1
                       /\ \A k \in found :
                             call.res[k].described
                                = (tag.rich \/ ConverterDescribes(px.delegate, tag.uri))

\* the tag -> converter index of the manager under test
TagIndex ==
    IF cls = LegacyClass THEN m1.converters_by_tag
    ELSE IF cls = CurrentClass THEN m2.converters_by_tag
    ELSE EmptyDict

\* C19: in the tag -> converter index a converter is bound to a tag only
\* if the tag is in the effective tag set of its extension: a tag the
\* converter declares and the extension's own tag list omits is not bound
\* to it, and for an extension without a tag list of its own every tag of
\* every one of its converters is bound.
C19_BoundTagsAreEffective ==
    /\ \A tag \in DOMAIN TagIndex : \A i \in DOMAIN TagIndex[tag] :
          LET e == Owner(TagIndex[tag][i].delegate)
          IN  ExtensionTagsDeclared(e) => tag \in DeclaredURIs(e)
    /\ \A k \in DOMAIN Extensions :
          LET e == Extensions[k].delegate
          IN  ~ExtensionTagsDeclared(e) =>
                \A j \in DOMAIN ExtensionConverters(e) :
                    \A tag \in Range(LegacyConverterTags(ExtensionConverters(e)[j])) :
                        \E i \in DOMAIN Get(TagIndex, tag) :
                            TagIndex[tag][i].delegate = ExtensionConverters(e)[j]

\* select_tag was called on the converter proxy with candidates
TagSelected ==
    cls = ConverterProxyClass /\ call.op = "select_tag" /\ call.arg # << >>

\* C20: ConverterProxy.select_tag returns the first element of the
\* candidate list when the wrapped converter defines no select_tag of its
\* own, and what the wrapped converter's select_tag returns when it
\* defines one.
C20_SelectTagDefaultsToFirst ==
    TagSelected
        => /\ call.exc = None
           /\ px.select_tag \in {"absent", "inherited"} => call.res = call.arg[1]
           /\ px.select_tag = "constant" => call.res = SelectTagResult
           /\ px.select_tag = "last" => call.res = call.arg[Len(call.arg)]

\* a converter without select_tag was asked to choose among candidates
\* that differ, and the first was returned
C20_Witness ==
    /\ TagSelected
    /\ px.select_tag = "absent"
    /\ Len(call.arg) >= 2
    /\ call.arg[1] # call.arg[2]
    /\ call.res = call.arg[1]

\* the default select_tag was asked to choose among tags the converter
\* declares
DefaultSelected ==
    /\ TagSelected
    /\ px.select_tag \in {"absent", "inherited"}
    /\ Range(call.arg) \subseteq Range(LegacyConverterTags(px.delegate))

\* C21: the default select_tag depends on the set of candidates only: in
\* whatever order they are presented it returns the candidate that comes
\* first in the converter's declared tags.
C21_SelectTagByDeclarationOrder ==
    DefaultSelected => call.res = FixtureTag(px.delegate, Range(call.arg))

\* the extensions the configuration is made of: the list it was given, or
\* what the entry points provide
InstalledExtensions ==
    IF px.extensions.none THEN EntryPointElements ELSE px.extensions.list

\* the extension is enabled by default / always
Enabled(e, name) ==
    IF Attributes(e.delegate)[name] # Absent THEN Attributes(e.delegate)[name] = "True"
    ELSE name = "always_enabled" /\ e.legacy

\* the extension's requirement holds the version
Supports(e, v) ==
    Attributes(e.delegate).asdf_standard_requirement = ">=1.4.0" => Release(v) >= 4

\* C22: an extension whose asdf_standard_requirement does not contain the
\* file's version is left out, an enabled one whose requirement contains
\* it is taken: get_default_extensions(v) and get_always_extensions(v)
\* return, in installed order, exactly the default-or-always-enabled
\* (respectively always-enabled) extensions whose requirement contains v.
C22_ExtensionsByVersion ==
    (cls = ConfigClass /\ call.op \in {"get_default_extensions", "get_always_extensions"})
        => /\ call.exc = None
           /\ call.res = SelectSeq(InstalledExtensions,
                 LAMBDA e : /\ \/ Enabled(e, "always_enabled")
                               \/ /\ call.op = "get_default_extensions"
                                  /\ Enabled(e, "default_enabled")
                            /\ Supports(e, call.arg))

\* the error a malformed asdf_standard_requirement of the delegate is to
\* be refused with, None for a requirement that is well-formed or absent
RequirementError(e) ==
    LET value == Attributes(e).asdf_standard_requirement
    IN  IF value = Unparseable THEN "ValueError"
        ELSE IF value = AnObject THEN "TypeError"
        ELSE None

\* C23: the construction of an ExtensionProxy validates
\* asdf_standard_requirement: an unparseable string fails with a value
\* error and any other non-string with a type error, in the constructor;
\* a later read of the property never fails, and gives the unconstrained
\* range for None and the parsed range for a well-formed string.
C23_RequirementCheckedAtConstruction ==
    cls = ProxyClass
        => /\ call.op = "__init__" => call.exc = RequirementError(px.delegate)
           /\ (call.op = "get" /\ call.arg = "asdf_standard_requirement")
                 => /\ call.exc = None
                    /\ call.res = IF Attributes(px.delegate).asdf_standard_requirement = Absent
                                  THEN AnyVersion ELSE SpecifierSet(4)

\* C24: the construction of an ExtensionProxy fails with a type error when
\* the delegate lists a converter that does not satisfy the Converter
\* interface, a tag that is neither a string nor a tag definition, or a
\* legacy class name that is not a string.
C24_ListsCheckedAtConstruction ==
    (cls = ProxyClass /\ call.op = "__init__"
        /\ Attributes(px.delegate).malformed # Absent)
        => call.exc = "TypeError"

\* a ConverterProxy's property was read
ConverterPropertyRead(name) ==
    cls = ConverterProxyClass /\ call.op = "get" /\ call.arg = name

C26_TypesCheckedAtConstruction ==
    (cls = ConverterProxyClass /\ call.op = "__init__"
        /\ MalformedConverter(px.delegate) = "types")
        => call.exc = "TypeError"

\* the proxy was compared with another object
Compared == cls \in ProxyClasses \cup {ConverterProxyClass} /\ call.op = "__eq__"

\* C27: two ExtensionProxy objects that wrap the same extension object are
\* equal and have equal hashes, whatever their package; proxies of different
\* extension objects are unequal; a proxy never equals a raw delegate.
C27_ExtensionProxyEqByDelegate ==
    (Compared /\ cls = ProxyClass) =>
        IF call.arg.kind # "raw" /\ call.arg.delegate = px.delegate
        THEN call.res.equal /\ call.res.hash_equal
        ELSE ~call.res.equal

\* C28: two ConverterProxy objects are equal and have equal hashes exactly
\* when they wrap the same converter and the same extension; otherwise they
\* are unequal and the one is not found in a set that holds the other.
C28_ConverterProxyEqByBoth ==
    (Compared /\ cls = ConverterProxyClass) =>
        IF /\ call.arg.kind # "raw"
           /\ call.arg.delegate = px.delegate
           /\ call.arg.owner = px.extension.delegate
        THEN call.res.equal /\ call.res.hash_equal /\ call.res.in_set
        ELSE ~call.res.equal /\ ~call.res.in_set

\* the object has the members of one of the two extension interfaces
HasExtensionShape(e) ==
    Attributes(e).extension_uri \/ Attributes(e).types_and_tag_mapping

\* C29: ExtensionProxy.maybe_wrap returns a proxy whose delegate is the raw
\* extension it is given, returns a proxy it is given as the same object,
\* and fails with a type error for an object that satisfies neither
\* extension interface.
C29_MaybeWrapIdempotent ==
    (cls \in ProxyClasses /\ call.op = "maybe_wrap") =>
        IF call.arg.kind # "raw" THEN call.exc = None /\ call.res = call.arg
        ELSE IF HasExtensionShape(call.arg.delegate)
             THEN /\ call.exc = None
                  /\ call.res.kind = "proxy"
                  /\ call.res.delegate = call.arg.delegate
        ELSE call.exc = "TypeError"

\* C30: ExtensionProxy.legacy is true exactly when the delegate has the
\* legacy shape (no extension_uri), whatever the caller passed; when the
\* delegate does not define always_enabled, the proxy's always_enabled is
\* true for a legacy extension and false for a current-style one.
C30_LegacyFromShape ==
    (cls \in ProxyClasses /\ call.op = "get") =>
        LET a == Attributes(px.delegate)
        IN  /\ call.arg = "legacy" => call.res = ~a.extension_uri
            /\ (call.arg = "always_enabled" /\ a.always_enabled = Absent)
                  => call.res = ~a.extension_uri

\* the list the manager holds, handed over with every element already a proxy
AlreadyWrapped(exts) ==
    [i \in DOMAIN exts |-> Input(exts[i].delegate, exts[i].package, FALSE)]

\* C31: an ExtensionManager built from a list with raw extension objects is
\* built (no element is rejected) and has the extension order and the tag
\* and type indices of the one built from the same list with every element
\* already wrapped in an ExtensionProxy.
C31_RawListAsWrappedList ==
    (cls \in {LegacyClass, CurrentClass} /\ last.op = "__init__") =>
        /\ last.res.kind # "raise"
        /\ cls = CurrentClass => m2 = CurrentInit(AlreadyWrapped(m2.extensions)).fields
        /\ cls = LegacyClass => m1 = LegacyInit(m1.extensions).fields

\* what get_config() returns in the thread, in that state of the module
CurrentConfig(p, t) == GetConfig(p.stacks[Local(t)])

\* the innermost context the thread is inside of
InnermostContext(p, t) == p.active[t][Len(p.active[t])]

\* the config get_config() returned in the thread when it entered that context
Enclosing(context) == GetConfig(context.before)

\* the step is a call of the thread
CalledBy(t, ops) == call'.op \in ops /\ call'.arg.thread = t

\* the step changes the config a config_context yielded to the thread
ChangedInContext(t) ==
    CalledBy(t, {ch.op : ch \in Changes}) /\ px.active[t] # << >>

\* C32: a change made to the config that config_context yielded (a resource
\* mapping added or removed, the resources reset, validate_on_read or
\* default_asdf_standard_version set) leaves the enclosing configuration as
\* it was, and when the context exits get_config() returns the enclosing
\* config again, with the option values and resource mappings it had.
C32_ContextChangesStayInside ==
    [][ cls = ConfigModule =>
          \A t \in Threads :
              /\ ChangedInContext(t) =>
                    \A id \in {GlobalConfig} \cup Range(InnermostContext(px, t).before) :
                        px'.heap[id] = px.heap[id]
              /\ CalledBy(t, {"__exit__"}) =>
                    LET enclosing == Enclosing(InnermostContext(px, t))
                    IN  /\ CurrentConfig(px', t) = enclosing
                        /\ px'.heap[enclosing] = px.heap[enclosing]
      ]_vars

\* a context was left whose config had been changed: it differs from the
\* enclosing config, which get_config() returns again
C32_Witness ==
    /\ cls = ConfigModule
    /\ call.op = "__exit__" /\ call.exc = None
    /\ call.res.fields # px.heap[CurrentConfig(px, call.arg.thread)]
    /\ call.res.fields.resource_mappings.list = << "m0", "ma" >>

\* C35: config_context is a stack: get_config() returns the config of the
\* innermost context the thread is inside of, or the global config when it
\* is inside none, and leaving a context, normally or through an exception
\* of its body, leaves the stack exactly as it was on entry.
C35_ContextsNest ==
    [][ cls = ConfigModule =>
          \A t \in Threads :
              /\ CurrentConfig(px', t) = IF px'.active[t] = << >> THEN GlobalConfig
                                         ELSE InnermostContext(px', t).config
              /\ CalledBy(t, {"__exit__"}) =>
                    /\ call'.exc \in {None, "Exception"}
                    /\ px'.stacks[Local(t)] = InnermostContext(px, t).before
      ]_vars

\* an inner context was left through an exception of its body, and the
\* thread is back in the outer one
C35_Witness ==
    /\ cls = ConfigModule
    /\ call.op = "__exit__" /\ call.arg.raised
    /\ Len(px.active[call.arg.thread]) = 1
    /\ CurrentConfig(px, call.arg.thread) = InnermostContext(px, call.arg.thread).config
    /\ CurrentConfig(px, call.arg.thread) # call.res.config

\* C36: the stack of overrides is per thread: a thread that enters or
\* leaves a config_context, or changes the config one yielded, changes
\* neither the config get_config() returns in another thread nor the option
\* values and resource mappings of that config.
C36_ContextsPerThread ==
    [][ cls = ConfigModule =>
          \A t \in Threads : \A u \in Threads \ {t} :
              (CalledBy(t, {"__enter__", "__exit__"}) \/ ChangedInContext(t)) =>
                  /\ CurrentConfig(px', u) = CurrentConfig(px, u)
                  /\ px'.heap[CurrentConfig(px, u)] = px.heap[CurrentConfig(px, u)]
      ]_vars

\* a thread changed the config of its context while the other thread was
\* inside a context of its own, whose config kept other values
C36_Witness ==
    /\ cls = ConfigModule
    /\ call.op \in {ch.op : ch \in Changes}
    /\ \A t \in Threads : px.active[t] # << >>
    /\ \E u \in Threads \ {call.arg.thread} :
          px.heap[CurrentConfig(px, u)] # px.heap[CurrentConfig(px, call.arg.thread)]

\* the existence queries and the lookups of the two managers
Queries ==
    {"handles_tag", "handles_type", "tag_supported", "type_supported"}
        \cup TagLookups \cup TypeLookups

\* C33: a lookup or an existence query, failed ones included, changes the
\* answer of no existence query: no tag, type or other key is reported as
\* supported after it that was not reported so before it, nor the reverse.
C33_QueriesLeaveIndices ==
    [][ (cls \in {CurrentClass, ConverterManagerClass} /\ last'.op \in Queries) =>
          /\ \A tag \in TagURIs \cup {KeyZero} :
                /\ HandlesTag(m2', tag) = HandlesTag(m2, tag)
                /\ TagSupported(cm', tag) = TagSupported(cm, tag)
          /\ \A typ \in TypeObjects \cup AskedTypes :
                /\ HandlesType(m2', typ) = HandlesType(m2, typ)
                /\ TypeSupported(cm', typ) = TypeSupported(cm, typ)
      ]_vars

\* the existence query that goes with the lookup just made: handles_tag /
\* handles_type, and the `in self._types` test of asdf/extension.py
Handled ==
    CASE cls = CurrentClass /\ last.op = "get_converter_for_tag" -> HandlesTag(m2, last.arg)
      [] cls = CurrentClass /\ last.op = "get_converter_for_type" -> HandlesType(m2, last.arg)
      [] cls = LegacyClass /\ last.op = "get_converter_for_type" -> last.arg \in m1.types
      [] OTHER -> FALSE

\* C34: the existence queries agree with the lookups: handles_tag(t) is
\* true exactly when get_converter_for_tag(t) returns a converter and does
\* not fail, and handles_type is true exactly when get_converter_for_type
\* returns a converter, for a type declared as a type object or by name.
C34_QueriesAgreeWithLookups ==
    ( \/ cls = CurrentClass /\ last.op \in {"get_converter_for_tag", "get_converter_for_type"}
      \/ cls = LegacyClass /\ last.op = "get_converter_for_type" )
    => (Handled <=> last.res.kind = "converter")

\* the command waits at a prompt
AtPrompt == px.pc \in {"version", "yaml", "validation", "error", "rewrite"}

\* C37: the edit command never writes to the file a content whose version of
\* the ASDF Standard differs from the original's: an edited content with
\* another version leads to the version prompt without a write, and the
\* prompt leads to the editor again or to a return with status 1, without a
\* write
C37_EditKeepsStandardVersion ==
    [][ cls = EditModule =>
          /\ px'.file # px.file =>
                ParseVersion(px'.file.yaml) = ParseVersion(px.original.yaml)
          /\ px'.writes # px.writes =>
                ParseVersion(px'.writes[Len(px'.writes)]) = ParseVersion(px.original.yaml)
          /\ ( /\ call'.op = "open_editor"
               /\ ParseVersion(px'.temp) # ParseVersion(px.original.yaml) )
             => px'.pc = "version" /\ px'.file = px.file /\ px'.writes = px.writes
          /\ px.pc = "version" =>
                /\ px'.file = px.file /\ px'.writes = px.writes
                /\ \/ px'.pc \in {"version", "editor"}
                   \/ px'.pc = "returned" /\ px'.status = "1"
      ]_vars

\* the version prompt was reached and the command returned from it
C37_Witness ==
    /\ cls = EditModule
    /\ call.op = "request_input" /\ call.res = "version" /\ call.arg = "a"
    /\ px.pc = "returned" /\ px.edits = 2
    /\ ParseVersion(px.temp) # ParseVersion(px.original.yaml)

\* C38: the edit command leaves the bytes of the file as they were on every
\* path that returns a status: 1 for a file that is not an ASDF file, 0 for
\* an edited content equal to the original, 1 for an abort at any prompt, the
\* rewrite confirmation included
C38_EditWithoutUpdateLeavesFile ==
    [][ cls = EditModule =>
          /\ px'.pc = "returned" /\ px'.status # None =>
                px'.file = px.original /\ px'.writes = << >>
          /\ call'.op = "edit" /\ ~px.file.asdf =>
                px'.pc = "returned" /\ px'.status = "1"
          /\ call'.op = "open_editor" /\ call'.arg = px.original.yaml =>
                px'.pc = "returned" /\ px'.status = "0"
          /\ AtPrompt /\ call'.op = "request_input" /\ call'.arg = "a" =>
                px'.pc = "returned" /\ px'.status = "1"
      ]_vars

\* the rewrite of a file with blocks was refused
C38_Witness ==
    /\ cls = EditModule
    /\ call.op = "request_input" /\ call.res = "rewrite" /\ call.arg = "a"
    /\ px.pc = "returned" /\ px.status = "1"
    /\ px.file = px.original /\ px.temp # px.original.yaml

\* the mappers given to the index that handle the type and whose schema id
\* is among the schema ids of the standards in force
ActiveMappers(index, type) ==
    {mapper \in Range(index.given) :
        /\ type \in mapper.types
        /\ mapper.schema_id \in GetSchemaIds(index.standard_index, NoOverride).schema_ids}

\* C39: MapperIndex.from_type(T) considers only the mappers for T whose schema
\* id is among the schema ids of the standards in force: it returns None when
\* there is none, the mapper when there is one, and raises ValueError when
\* there are several
C39_FromTypeAmongActiveSchemas ==
    (cls = MapperIndexClass /\ call.op = "from_type") =>
        LET candidates == ActiveMappers(px, call.arg)
        IN  CASE Cardinality(candidates) = 0 -> call.exc = None /\ call.res = NoMapper
              [] Cardinality(candidates) = 1 -> call.exc = None /\ call.res \in candidates
              [] OTHER -> call.exc = "ValueError" /\ call.res = NoMapper

\* of two mappers given for the type, the one whose schema is in force was
\* returned
C39_Witness ==
    /\ cls = MapperIndexClass /\ call.op = "from_type"
    /\ Cardinality({mapper \in Range(px.given) : call.arg \in mapper.types}) = 2
    /\ Cardinality(ActiveMappers(px, call.arg)) = 1
    /\ call.res \in ActiveMappers(px, call.arg)

\* the number a sequence of digits writes
RECURSIVE Number(_)
Number(digits) ==
    IF digits = << >> THEN 0
    ELSE 10 * Number(SubSeq(digits, 1, Len(digits) - 1)) + (digits[Len(digits)] - 48)

\* the numbers a version text a.b.c writes
RECURSIVE ReleaseNumbers(_)
ReleaseNumbers(text) ==
    LET dots == {i \in DOMAIN text : text[i] = 46}
    IN  IF dots = {} THEN << Number(text) >>
        ELSE << Number(SubSeq(text, 1, Min(dots) - 1)) >>
                 \o ReleaseNumbers(SubSeq(text, Min(dots) + 1, Len(text)))

\* version a is numerically later than version b
LaterRelease(a, b) ==
    \E i \in 1..3 : a[i] > b[i] /\ \A j \in 1..(i - 1) : a[j] = b[j]

\* the standard given under the name with the numerically highest version
HighestStandard(given, name) ==
    CHOOSE s \in given :
        /\ StandardName(s) = name
        /\ \A o \in given : StandardName(o) = name =>
              ~LaterRelease(ReleaseNumbers(StandardVersion(o)), ReleaseNumbers(StandardVersion(s)))

\* C40: SchemaStandardIndex keeps for each name the standard with the
\* numerically highest version among those given, in any order, and
\* get_schema_ids returns the union of the schema ids of one standard per
\* name, the override given for the name or else the latest, and raises
\* ValueError for an override id it does not recognize
C40_LatestStandardPerName ==
    cls = MapperIndexClass =>
        LET index == px.standard_index
            given == Range(index.standards)
            names == {StandardName(s) : s \in given}
        IN  /\ DOMAIN index.latest_standards_by_name = names
            /\ \A name \in names :
                  index.latest_standards_by_name[name] = HighestStandard(given, name)
            /\ call.op = "get_schema_ids" =>
                  LET ids == call.arg.ids
                      Chosen(name) ==
                          LET named == {i \in DOMAIN ids : ids[i].name = name}
                          IN  IF named = {} THEN HighestStandard(given, name)
                              ELSE CHOOSE s \in given :
                                      s.standard_id = ids[CHOOSE i \in named :
                                                             \A j \in named : j <= i]
                  IN  IF \E i \in DOMAIN ids : ids[i] \notin {s.standard_id : s \in given}
                      THEN call.exc = "ValueError"
                      ELSE /\ call.exc = None
                           /\ call.res = UNION {Chosen(name).schema_ids : name \in names}

====
